---------------------------- MODULE Spec2Model ----------------------------
(***************************************************************************)
(* Retrieval-and-ranking of the customer support agents:                   *)
(*   DirectKnowledgeService.search_knowledge_base   (knowledge_service.py) *)
(*   CustomerSupportMCPServer.handle_search_knowledge_base (mcp_server.py) *)
(*   CustomerSupportAgent.search_knowledge_base (customer_support_agent.py)*)
(* and the agents that call them (direct_agent.py, mcp_agent.py).          *)
(*                                                                         *)
(* Strings are sequences of one-character strings, so that lower(),        *)
(* split(), strip(), join() and the substring test are computed.           *)
(* A distance is an integer number of 1/10000 (0.5 is 5000); a similarity  *)
(* is an integer number of 1/1000 (round(x, 3)) or of 1/10000.             *)
(***************************************************************************)
EXTENDS Integers, Sequences, FiniteSets, TLC

VARIABLES
    knowledge_base,   \* the vector index: the documents added at startup
    query,            \* the query text of the call
    max_results,      \* max_results / n_results of the call
    distances,        \* the distance the index assigns to each document for query
    tie_reversed,     \* how the index orders equidistant documents
    include,          \* the fields the index response carries
    index_fails,      \* whether knowledge_base.query raises
    ret,              \* the outcome of the call made
    request_log,      \* CustomerSupportMCPServer.request_log
    call_log,         \* DirectCustomerSupportAgent.call_log
    mcp_calls_log,    \* MCPCustomerSupportAgent.mcp_calls_log
    operation_log,    \* VectorDatabase.operation_log (phase1c)
    customers,        \* the customer table of the service
    server_knowledge_base, \* the index of CustomerSupportMCPServer
    index,            \* the distances the index assigns, for each query
    trace,            \* the calls made in a session, with what each returned
    knowledge_service,     \* the module global _knowledge_service (0: None)
    constructions,    \* how many times DirectKnowledgeService() has completed
    agents,           \* the DirectCustomerSupportAgent objects created
    returned,         \* what each get_knowledge_service() call returned
    expense,          \* the expense record given to ExpenseAgent.check_expense
    requests_logged,  \* every entry log_request was asked to add, in arrival order
    calls_logged,     \* every entry log_call was asked to add, in arrival order
    support_tickets,  \* CustomerServiceMCPServer.support_tickets (phase2c): id -> ticket
    today,            \* the date datetime.now() gives
    ticket_calls,     \* the create_support_ticket calls made, with what each returned
    message_inbox,    \* RAGEnhancedAgent.message_inbox of each agent
    message_outbox,   \* RAGEnhancedAgent.message_outbox of each agent
    message_history,  \* MultiAgentCoordinator.message_history
    messages_sent,    \* every message send_message has built, in send order
    last_routed,      \* whether route_messages was the last call
    workflows,        \* MultiAgentCoordinator.workflows: workflow_id -> steps and status
    coordination_log, \* MultiAgentCoordinator.coordination_log
    execution,        \* the locals of the execute_workflow call in progress
    executed,         \* every step execution, with the number of the execute_workflow call
    wf_returned,      \* what the last call returned, until the next call is made
    wf_calls,         \* how many create_workflow and execute_workflow calls were made
    llm_available,    \* SimpleAgent.llm_available
    llm_plan,         \* which tools the model names in its replies
    memory_store,     \* SimpleAgent.memory_store: task_id -> AgentMemory
    solving,          \* the locals of the solve_task call in progress
    solve_returned,   \* what the last solve_task returned, until the next call is made
    solve_calls       \* how many solve_task calls were made

vars == <<knowledge_base, query, max_results, distances, tie_reversed, include,
          index_fails, ret, request_log, call_log, mcp_calls_log, operation_log,
          customers, server_knowledge_base, index, trace,
          knowledge_service, constructions, agents, returned, expense,
          requests_logged, calls_logged, support_tickets, today, ticket_calls,
          message_inbox, message_outbox, message_history, messages_sent, last_routed,
          workflows, coordination_log, execution, executed, wf_returned, wf_calls,
          llm_available, llm_plan, memory_store, solving, solve_returned, solve_calls>>

\* the state of a session of calls
session == <<customers, server_knowledge_base, index, trace>>

\* the state of the module knowledge_service.py and its users
singleton == <<knowledge_service, constructions, agents, returned>>

\* what has been logged since the server and the agent were constructed
logged == <<requests_logged, calls_logged>>

\* the tickets of the phase2c server
tickets == <<support_tickets, today, ticket_calls>>

\* the messages of the phase2b agent team
routing == <<message_inbox, message_outbox, message_history, messages_sent, last_routed>>

\* the workflows of MultiAgentCoordinator and the execute_workflow call in progress
workflow == <<workflows, coordination_log, execution, executed, wf_returned, wf_calls>>

\* the task memories of SimpleAgent (phase2a) and the solve_task call in progress
task == <<llm_available, llm_plan, memory_store, solving, solve_returned, solve_calls>>

\* the state of the training phases' agents and servers
phases == <<logged, tickets, routing, workflow, task>>


\* what the search entry points below neither read nor write
others == <<session, singleton, expense, phases>>

inputs == <<knowledge_base, query, max_results, distances, tie_reversed, include,
            index_fails>>

\* what the search entry points read and write
search == <<inputs, ret, request_log, call_log, mcp_calls_log, operation_log>>

\* everything but the logs and what has been logged
besidesLogs == <<inputs, ret, mcp_calls_log, operation_log, session, singleton, expense,
                 tickets,
                 routing,
                 workflow,
                 task>>

\* everything but the tickets
besidesTickets == <<search, session, singleton, expense, logged,
                 routing,
                 workflow,
                 task>>

\* everything but the messages
besidesRouting == <<search, session, singleton, expense, logged, tickets,
                 workflow,
                 task>>

\* everything but the workflows
besidesWorkflow == <<search, session, singleton, expense, logged, tickets, routing,
                 task>>

\* everything but the task memories
besidesTask == <<search, session, singleton, expense, logged, tickets, routing, workflow>>

-----------------------------------------------------------------------------
(* str methods *)

Whitespace == {" ", "\t", "\n"}

LowerChar(c) ==
    CASE c = "A" -> "a" [] c = "B" -> "b" [] c = "C" -> "c" [] c = "D" -> "d"
      [] c = "E" -> "e" [] c = "F" -> "f" [] c = "G" -> "g" [] c = "H" -> "h"
      [] c = "I" -> "i" [] c = "J" -> "j" [] c = "K" -> "k" [] c = "L" -> "l"
      [] c = "M" -> "m" [] c = "N" -> "n" [] c = "O" -> "o" [] c = "P" -> "p"
      [] c = "Q" -> "q" [] c = "R" -> "r" [] c = "S" -> "s" [] c = "T" -> "t"
      [] c = "U" -> "u" [] c = "V" -> "v" [] c = "W" -> "w" [] c = "X" -> "x"
      [] c = "Y" -> "y" [] c = "Z" -> "z"
      [] OTHER -> c

\* str.lower()
Lower(s) == [i \in 1..Len(s) |-> LowerChar(s[i])]

\* needle in haystack
Contains(needle, haystack) ==
    \E k \in 0..(Len(haystack) - Len(needle)) :
        \A i \in 1..Len(needle) : haystack[k + i] = needle[i]

\* str.strip()
RECURSIVE LStrip(_)
LStrip(s) == IF s # <<>> /\ Head(s) \in Whitespace THEN LStrip(Tail(s)) ELSE s

RECURSIVE RStrip(_)
RStrip(s) ==
    IF s # <<>> /\ s[Len(s)] \in Whitespace THEN RStrip(SubSeq(s, 1, Len(s) - 1)) ELSE s

Strip(s) == RStrip(LStrip(s))

\* str.split(): runs of whitespace separate the words, no empty word
RECURSIVE SplitWsFrom(_, _, _)
SplitWsFrom(s, i, word) ==
    IF i > Len(s) THEN (IF word = <<>> THEN <<>> ELSE <<word>>)
    ELSE IF s[i] \in Whitespace
         THEN (IF word = <<>> THEN <<>> ELSE <<word>>) \o SplitWsFrom(s, i + 1, <<>>)
         ELSE SplitWsFrom(s, i + 1, Append(word, s[i]))

SplitWs(s) == SplitWsFrom(s, 1, <<>>)

\* str.split(sep): every separator cuts, empty pieces are kept
RECURSIVE SplitOnFrom(_, _, _, _)
SplitOnFrom(s, sep, i, piece) ==
    IF i > Len(s) THEN <<piece>>
    ELSE IF s[i] = sep
         THEN <<piece>> \o SplitOnFrom(s, sep, i + 1, <<>>)
         ELSE SplitOnFrom(s, sep, i + 1, Append(piece, s[i]))

SplitOn(s, sep) == SplitOnFrom(s, sep, 1, <<>>)

\* sep.join(parts)
RECURSIVE Join(_, _)
Join(parts, sep) ==
    IF parts = <<>> THEN <<>>
    ELSE IF Len(parts) = 1 THEN parts[1]
    ELSE parts[1] \o <<sep>> \o Join(Tail(parts), sep)

-----------------------------------------------------------------------------
(* Numbers: distances in 1/10000, round() to a number of decimals *)

RECURSIVE Pow10(_)
Pow10(n) == IF n = 0 THEN 1 ELSE 10 * Pow10(n - 1)

\* the number of decimals a distance is kept with
DistUnitDigits == 2 + 2

\* 1.0 as a distance
One == Pow10(DistUnitDigits)

\* round(x, digits) of x given in 1/10000: the nearest multiple of
\* 10^-digits, in units of 10^-digits; a tie goes to the even neighbour
Round(x, digits) ==
    LET m == Pow10(DistUnitDigits - digits)
        q == x \div m
        r == x % m
    IN  IF 2 * r < m THEN q
        ELSE IF 2 * r > m THEN q + 1
        ELSE IF q % 2 = 0 THEN q ELSE q + 1

Min(a, b) == IF a <= b THEN a ELSE b

-----------------------------------------------------------------------------
(* The corpus: documents as the load functions build them *)

Doc1 ==
    [id |-> "policy_returns", category |-> "returns",
     text |-> <<"R", "e", "t", "u", "r", "n", " ", "i", "t", "e", "m", "s", " ", "w", "i", "t", "h", "i", "n", " ", "3", "0", " ", "d", "a", "y", "s">>,
     keywords |-> << <<"r", "e", "t", "u", "r", "n">>,
                    <<"r", "e", "f", "u", "n", "d">> >>]
Doc2 ==
    [id |-> "policy_shipping", category |-> "shipping",
     text |-> <<"F", "r", "e", "e", " ", "s", "h", "i", "p", "p", "i", "n", "g">>,
     keywords |-> << <<"s", "h", "i", "p", "p", "i", "n", "g">>,
                    <<"f", "r", "e", "e", " ", "s", "h", "i", "p", "p", "i", "n", "g">> >>]
Doc3 ==
    [id |-> "policy_support", category |-> "support",
     text |-> <<"P", "h", "o", "n", "e", " ", "s", "u", "p", "p", "o", "r", "t">>,
     keywords |-> << <<"s", "u", "p", "p", "o", "r", "t", " ", "h", "o", "u", "r", "s">>,
                    <<"p", "h", "o", "n", "e">> >>]
Doc4 ==
    [id |-> "account_password", category |-> "account",
     text |-> <<"P", "a", "s", "s", "w", "o", "r", "d", " ", "r", "e", "s", "e", "t">>,
     keywords |-> << <<"p", "a", "s", "s", "w", "o", "r", "d">>,
                    <<"r", "e", "s", "e", "t">> >>]
Doc5 ==
    [id |-> "payment_methods", category |-> "payment",
     text |-> <<"W", "e", " ", "a", "c", "c", "e", "p", "t", " ", "P", "a", "y", "P", "a", "l">>,
     keywords |-> << <<"p", "a", "y", "m", "e", "n", "t">>,
                    <<"p", "a", "y", "p", "a", "l">> >>]

AllDocuments == <<Doc1, Doc2, Doc3, Doc4, Doc5>>

\* the corpora tried: the first k documents
CorpusSizes == {0, 2, 5}

Documents(k) == SubSeq(AllDocuments, 1, k)

\* knowledge_base.add(documents=[text], metadatas=[{category, keywords: ",".join(..)}], ids=[id])
AddDocuments(documents) ==
    [i \in 1..Len(documents) |->
        [id |-> documents[i].id,
         document |-> documents[i].text,
         metadata |-> [category |-> documents[i].category,
                       keywords |-> Join(documents[i].keywords, ",")]]]

-----------------------------------------------------------------------------
(* The queries and the index's answers tried *)

Query1 == <<"H", "o", "w", " ", "d", "o", " ", "I", " ", "r", "e", "t", "u", "r", "n", " ", "t", "h", "i", "s", "?">>
Query2 == <<"r", "e", "t", "u", "r", "n", " ", "p", "o", "l", "i", "c", "y">>
Query3 == <<"a", "s", "d", "k", "j", " ", "n", "o", "n", "s", "e", "n", "s", "e">>
Query4 == <<"i", "t", "e", "m", "s">>
Query5 == <<>>
Query6 == <<" ", "r", "e", "f", "u", "n", "d", " ", " ", "r", "e", "f", "u", "n", "d">>

Queries == {Query1, Query2, Query3, Query4, Query5, Query6}

MaxN == 3

\* 0.4996, 0.5, 1.5 and 1.6007: below, at and above the two thresholds
DistancesOf(k) == IF k <= 2 THEN {4996, 5000, 15000, 16007} ELSE {4996, 16007}

IncludeSets == {{"ids", "distances"}, {}}

-----------------------------------------------------------------------------
(* The vector index: collection.query(query_texts=[query], n_results=n) *)

\* document j is nearer than document i
Nearer(dist, rev, j, i) ==
    \/ dist[j] < dist[i]
    \/ dist[j] = dist[i] /\ (IF rev THEN j > i ELSE j < i)

\* the documents from the nearest to the farthest
Ranking(kb, dist, rev) ==
    [k \in 1..Len(kb) |->
        CHOOSE i \in 1..Len(kb) :
            Cardinality({j \in 1..Len(kb) : Nearer(dist, rev, j, i)}) = k - 1]

\* the n nearest documents (fewer when the collection is smaller)
Nearest(kb, dist, rev, n) == SubSeq(Ranking(kb, dist, rev), 1, Min(n, Len(kb)))

\* the response of query(): parallel lists, one entry per candidate
QueryIndex(kb, dist, rev, incl, n) ==
    LET top == Nearest(kb, dist, rev, n)
    IN  [documents |-> [k \in 1..Len(top) |-> kb[top[k]].document],
         metadatas |-> [k \in 1..Len(top) |-> kb[top[k]].metadata],
         has_ids |-> "ids" \in incl,
         ids |-> [k \in 1..Len(top) |-> kb[top[k]].id],
         has_distances |-> "distances" \in incl,
         distances |-> [k \in 1..Len(top) |-> dist[top[k]]]]

-----------------------------------------------------------------------------
(* Relevance scoring, filter, sort and truncation of the three variants *)

\* distance < 1.5 (knowledge_service.py, mcp_server.py)
EnhancedThreshold == 15000

\* distance < 0.5 (customer_support_agent.py)
CsaThreshold == 5000

\* round(1 - distance, 3)
SimilarityDigits == 3

\* relevant_docs[:3] of customer_support_agent.py
CsaTopK == 3

\* results['distances'][0][i] if results.get('distances') else 0
DistanceOf(results, i) == IF results.has_distances THEN results.distances[i] ELSE 0

\* f"doc_{i}", i counted from 0
DocIndexId(i) ==
    CASE i = 1 -> "doc_0" [] i = 2 -> "doc_1" [] i = 3 -> "doc_2"
      [] i = 4 -> "doc_3" [] OTHER -> "doc_4"

\* metadata.get('keywords', '').lower().split(',')
DocKeywords(metadata) == SplitOn(Lower(metadata.keywords), ",")

\* query.lower().split()
QueryWords(q) == SplitWs(Lower(q))

\* word in doc_keywords[0].strip(): only the first keyword looked at
InFirstKeyword(word, doc_keywords) == Contains(word, Strip(doc_keywords[1]))

\* any(word in keyword.strip() for keyword in doc_keywords)
InAnyKeyword(word, doc_keywords) ==
    \E k \in 1..Len(doc_keywords) : Contains(word, Strip(doc_keywords[k]))

\* len({word for word in query_words if any(...)}): a repeated word counted once
KeywordMatchesDistinct(query_words, doc_keywords) ==
    Cardinality({query_words[w] : w \in
                    {v \in 1..Len(query_words) : InAnyKeyword(query_words[v], doc_keywords)}})

\* sum(1 for word in query_words if any(word in keyword.strip() ...))
KeywordMatches(query_words, doc_keywords) ==
    Cardinality({w \in 1..Len(query_words) : InAnyKeyword(query_words[w], doc_keywords)})

\* sum(1 for word in query_words if word in doc_content)
ContentMatches(query_words, doc_content) ==
    Cardinality({w \in 1..Len(query_words) : Contains(query_words[w], doc_content)})

\* the matching words, a repeated word listed once
RECURSIVE MatchedKeywordsOnce(_, _)
MatchedKeywordsOnce(query_words, doc_keywords) ==
    IF query_words = <<>> THEN <<>>
    ELSE LET rest == MatchedKeywordsOnce(Tail(query_words), doc_keywords)
         IN  IF /\ InAnyKeyword(Head(query_words), doc_keywords)
                /\ \A m \in 1..Len(rest) : rest[m] # Head(query_words)
             THEN <<Head(query_words)>> \o rest
             ELSE rest

\* list(query_words): the condition of the comprehension left out
MatchedKeywordsUnfiltered(query_words, doc_keywords) == query_words

\* [word for word in query_words if any(word in keyword.strip() ...)]
RECURSIVE MatchedKeywords(_, _)
MatchedKeywords(query_words, doc_keywords) ==
    IF query_words = <<>> THEN <<>>
    ELSE (IF InAnyKeyword(Head(query_words), doc_keywords)
          THEN <<Head(query_words)>> ELSE <<>>)
         \o MatchedKeywords(Tail(query_words), doc_keywords)

\* round(x, digits), in 1/10000 like x
Rounded(x, digits) == Round(x, digits) * Pow10(DistUnitDigits - digits)

\* round(distance, 3): the complement forgotten
SimilarityOfDistanceItself(distance) == Rounded(distance, SimilarityDigits)

\* round(1 - distance, 3)
Similarity(distance) == Rounded(One - distance, SimilarityDigits)

\* the dict appended for candidate i by knowledge_service.py and mcp_server.py
EnhancedDoc(results, q, i) ==
    LET metadata == results.metadatas[i]
        doc == results.documents[i]
        distance == DistanceOf(results, i)
        doc_keywords == DocKeywords(metadata)
        query_words == QueryWords(q)
        total_matches == KeywordMatches(query_words, doc_keywords)
                         + ContentMatches(query_words, Lower(doc))
    IN  [id |-> IF results.has_ids THEN results.ids[i] ELSE DocIndexId(i),
         content |-> doc,
         category |-> metadata.category,
         keywords |-> SplitOn(metadata.keywords, ","),
         relevance_score |-> total_matches,
         distance |-> distance,
         similarity |-> Similarity(distance),
         matched_keywords |-> MatchedKeywords(query_words, doc_keywords),
         search_query |-> q,
         retrieval_method |-> "semantic_search"]

\* if distance < 1.5: the matches left out of the filter
EnhancedKeepsDistanceOnly(d) == d.distance < EnhancedThreshold

\* if total_matches > 0 and distance < 1.5
EnhancedKeepsBoth(d) == d.relevance_score > 0 /\ d.distance < EnhancedThreshold

\* if total_matches > 0 or distance < 1.5
EnhancedKeeps(d) == d.relevance_score > 0 \/ d.distance < EnhancedThreshold

\* the dict appended for candidate i by customer_support_agent.py
CsaDoc(results, q, i) ==
    LET metadata == results.metadatas[i]
        keyword_matches == KeywordMatches(QueryWords(q), DocKeywords(metadata))
    IN  [content |-> results.documents[i],
         category |-> metadata.category,
         relevance_score |-> keyword_matches,
         distance |-> DistanceOf(results, i)]

\* if keyword_matches > 0 or distance <= 0.5
CsaKeepsInclusive(d) == d.relevance_score > 0 \/ d.distance <= CsaThreshold

\* if keyword_matches > 0 or distance < 0.5
CsaKeeps(d) == d.relevance_score > 0 \/ d.distance < CsaThreshold

\* the loop over results['documents'][0]: the kept candidates, in the index's order
RECURSIVE EnhancedKept(_, _, _)
EnhancedKept(results, q, i) ==
    IF i > Len(results.documents) THEN <<>>
    ELSE LET d == EnhancedDoc(results, q, i)
         IN  (IF EnhancedKeeps(d) THEN <<d>> ELSE <<>>) \o EnhancedKept(results, q, i + 1)

RECURSIVE CsaKept(_, _, _)
CsaKept(results, q, i) ==
    IF i > Len(results.documents) THEN <<>>
    ELSE LET d == CsaDoc(results, q, i)
         IN  (IF CsaKeeps(d) THEN <<d>> ELSE <<>>) \o CsaKept(results, q, i + 1)

\* key=lambda x: x['distance']: the relevance left out of the key
KeyLEDistanceOnly(a, b) == a.distance <= b.distance

\* key=lambda x: (-x['relevance_score'], x['distance']): a sorts before b, or equal
KeyLE(a, b) ==
    \/ a.relevance_score > b.relevance_score
    \/ a.relevance_score = b.relevance_score /\ a.distance <= b.distance

\* list.sort(key=...): stable, so x goes after the elements that are not after it
RECURSIVE InsertSorted(_, _)
InsertSorted(sorted, x) ==
    IF sorted = <<>> THEN <<x>>
    ELSE IF KeyLE(Head(sorted), x) THEN <<Head(sorted)>> \o InsertSorted(Tail(sorted), x)
    ELSE <<x>> \o sorted

RECURSIVE SortDocs(_)
SortDocs(docs) ==
    IF docs = <<>> THEN <<>>
    ELSE InsertSorted(SortDocs(SubSeq(docs, 1, Len(docs) - 1)), docs[Len(docs)])

\* docs[:n] for n >= 0
Truncate(docs, n) == SubSeq(docs, 1, Min(n, Len(docs)))

\* n_results larger than the caller's limit
MoreNResults(n) == n + 2

\* round(1 - distance, 4) of phase1c_vector_database.py
SearchSimilarDigits == 4

\* f"result_{i}", i counted from 0
ResultIndexId(i) ==
    CASE i = 1 -> "result_0" [] i = 2 -> "result_1" [] i = 3 -> "result_2"
      [] i = 4 -> "result_3" [] OTHER -> "result_4"

\* the dict appended for candidate i by VectorDatabase.search_similar
SimilarDoc(results, i) ==
    [id |-> IF results.has_ids THEN results.ids[i] ELSE ResultIndexId(i),
     text |-> results.documents[i],
     metadata |-> results.metadatas[i],
     distance |-> DistanceOf(results, i),
     similarity |-> IF results.has_distances
                    THEN Rounded(One - results.distances[i], SearchSimilarDigits)
                    ELSE One]

\* VectorDatabase.search_similar, the collection found and the index having answered
SearchSimilar(kb, dist, rev, incl, n) ==
    LET results == QueryIndex(kb, dist, rev, incl, n)
    IN  [i \in 1..Len(results.documents) |-> SimilarDoc(results, i)]

\* the n_results passed to the index: the caller's max_results
EnhancedNResults(n) == n

CsaNResults(n) == n

\* knowledge_service.py 124-164 and mcp_server.py 178-219, the index having answered
EnhancedSearch(kb, dist, rev, incl, q, n) ==
    LET results == QueryIndex(kb, dist, rev, incl, EnhancedNResults(n))
        relevant_docs == EnhancedKept(results, q, 1)
    IN  Truncate(SortDocs(relevant_docs), n)

\* relevant_docs[:3] if len(relevant_docs) >= 3 else []
CsaTopOrNothing(docs) == IF Len(docs) >= CsaTopK THEN SubSeq(docs, 1, CsaTopK) ELSE <<>>

\* relevant_docs[:3] if len(relevant_docs) >= 3 else relevant_docs
CsaTop(docs) == IF Len(docs) >= CsaTopK THEN SubSeq(docs, 1, CsaTopK) ELSE docs

\* customer_support_agent.py 128-162, the index having answered
CsaSearch(kb, dist, rev, incl, q, n) ==
    LET results == QueryIndex(kb, dist, rev, incl, CsaNResults(n))
        relevant_docs == CsaKept(results, q, 1)
    IN  CsaTop(SortDocs(relevant_docs))

-----------------------------------------------------------------------------
(* Logs *)

\* mcp_server.py: keep only last 50 requests
RequestLogMax == 50

\* direct_agent.py, mcp_agent.py: keep only last 20 calls
CallLogMax == 20

\* phase1c_vector_database.py: keep only last 100 operations
OperationLogMax == 100

\* seq[-n:] for n >= 1
LastN(seq, n) == IF Len(seq) > n THEN SubSeq(seq, Len(seq) - n + 1, Len(seq)) ELSE seq

\* self.request_log = self.request_log[:50]: the oldest kept, the newest dropped
log_request_keeping_first(log, tool_name, args, result_type) ==
    LET appended == Append(log, [tool |-> tool_name, arguments |-> args,
                                 result_type |-> result_type])
    IN  IF Len(appended) > RequestLogMax THEN SubSeq(appended, 1, RequestLogMax) ELSE appended

\* CustomerSupportMCPServer.log_request (timestamp and preview left out)
log_request(log, tool_name, args, result_type) ==
    LET appended == Append(log, [tool |-> tool_name, arguments |-> args,
                                 result_type |-> result_type])
    IN  IF Len(appended) > RequestLogMax THEN LastN(appended, RequestLogMax) ELSE appended

\* DirectCustomerSupportAgent.log_call and MCPCustomerSupportAgent.log_mcp_call
\* (timestamp and duration left out; of the result, its kind is kept)
log_call(log, operation, args, result_kind) ==
    LET appended == Append(log, [tool |-> operation, arguments |-> args,
                                 result |-> result_kind])
    IN  IF Len(appended) > CallLogMax THEN LastN(appended, CallLogMax) ELSE appended

\* VectorDatabase._log_operation (timestamp left out)
log_operation(log, operation, details) ==
    LET appended == Append(log, [operation |-> operation, details |-> details])
    IN  IF Len(appended) > OperationLogMax THEN LastN(appended, OperationLogMax)
        ELSE appended

-----------------------------------------------------------------------------
(* search_knowledge_base of each class: what the caller gets *)

\* a returned list
ReturnedList(docs) == [status |-> "returned", kind |-> "list", docs |-> docs]

\* a returned dict {"error": str(e)}
ReturnedError == [status |-> "returned", kind |-> "error_dict", docs |-> <<>>]

\* an exception leaving the function
Raised == [status |-> "raised", kind |-> "exception", docs |-> <<>>]

\* search_knowledge_base without its try ... except
KnowledgeServiceSearchNoTry(kb, dist, rev, incl, fails, q, n) ==
    IF fails THEN Raised
    ELSE ReturnedList(EnhancedSearch(kb, dist, rev, incl, q, n))

\* DirectKnowledgeService.search_knowledge_base: try ... except Exception: return []
KnowledgeServiceSearch(kb, dist, rev, incl, fails, q, n) ==
    IF fails THEN ReturnedList(<<>>)
    ELSE ReturnedList(EnhancedSearch(kb, dist, rev, incl, q, n))

\* CustomerSupportAgent.search_knowledge_base (customer_support_agent.py): no try
CsaAgentSearch(kb, dist, rev, incl, fails, q, n) ==
    IF fails THEN Raised
    ELSE ReturnedList(CsaSearch(kb, dist, rev, incl, q, n))

\* CustomerSupportMCPServer.handle_search_knowledge_base: the JSON text sent back,
\* json.dumps(result) or json.dumps({"error": str(e)}), as the value it encodes
McpHandlerSearch(kb, dist, rev, incl, fails, q, n) ==
    IF fails THEN ReturnedError
    ELSE ReturnedList(EnhancedSearch(kb, dist, rev, incl, q, n))

\* MCPCustomerSupportAgent.call_mcp_tool: json.loads of the text, or
\* {"error": str(e)} when the call itself raises
CallMcpTool(response) == IF response.status = "raised" THEN ReturnedError ELSE response

-----------------------------------------------------------------------------
(* The state machine: the inputs of one call are drawn at the start, and   *)
(* each action is one entry point applied to them                          *)

NotCalled == [op |-> "none", status |-> "none", kind |-> "none", docs |-> <<>>]

JohnEmail == <<"j", "o", "h", "n", ".", "d", "o", "e", "@", "e", "m", "a", "i", "l", ".", "c", "o", "m">>
JohnEmailMixed == <<"J", "o", "h", "n", ".", "D", "o", "e", "@", "E", "m", "a", "i", "l", ".", "c", "o", "m">>
JohnEmailUpper == <<"J", "O", "H", "N", ".", "D", "O", "E", "@", "E", "M", "A", "I", "L", ".", "C", "O", "M">>
SarahEmail == <<"s", "a", "r", "a", "h", ".", "s", "m", "i", "t", "h", "@", "e", "m", "a", "i", "l", ".", "c", "o", "m">>
NobodyEmail == <<"n", "o", "b", "o", "d", "y", "@", "e", "m", "a", "i", "l", ".", "c", "o", "m">>

\* the customer emails of the inquiries tried
Emails == {JohnEmail, JohnEmailMixed, NobodyEmail}

\* self.customers of load_customer_data and setup_data (orders left out)
CustomerTable ==
    [email \in {JohnEmail, SarahEmail} |->
        IF email = JohnEmail
        THEN [found |-> TRUE, name |-> "John Doe", tier |-> "Premium",
              support_tickets |-> 2]
        ELSE [found |-> TRUE, name |-> "Sarah Smith", tier |-> "Standard",
              support_tickets |-> 0]]

\* None
NoCustomer == [found |-> FALSE, name |-> "", tier |-> "", support_tickets |-> 0]

\* self.customers.get(email): the key looked up as given
lookup_customer_as_given(table, email) ==
    IF email \in DOMAIN table THEN table[email] ELSE NoCustomer

\* self.customers.get(email.lower())
lookup_customer(table, email) ==
    IF Lower(email) \in DOMAIN table THEN table[Lower(email)] ELSE NoCustomer

\* no session of calls is going on
SessionIdle ==
    /\ server_knowledge_base = <<>>
    /\ index = <<>>
    /\ trace = <<>>

\* knowledge_service.py is imported, get_knowledge_service() not called yet
SingletonIdle ==
    /\ knowledge_service = 0
    /\ constructions = 0
    /\ agents = <<>>
    /\ returned = <<>>

\* nothing logged yet
LoggedIdle ==
    /\ requests_logged = <<>>
    /\ calls_logged = <<>>

\* CustomerServiceMCPServer.__init__: no ticket yet
TicketsIdle ==
    /\ support_tickets = <<>>
    /\ today = 1
    /\ ticket_calls = <<>>

\* the five agents _create_agent_team creates, in the order of self.agents
AgentNames ==
    <<"CoordinatorAgent", "ResearchAgent", "AnalystAgent", "ResponderAgent", "ValidatorAgent">>

AgentSet == {AgentNames[i] : i \in 1..Len(AgentNames)}

\* RAGEnhancedAgent.__init__ and MultiAgentCoordinator.__init__: no message yet
RoutingIdle ==
    /\ message_inbox = [a \in AgentSet |-> <<>>]
    /\ message_outbox = [a \in AgentSet |-> <<>>]
    /\ message_history = <<>>
    /\ messages_sent = <<>>
    /\ last_routed = FALSE

\* no execute_workflow call in progress
NotExecuting ==
    [pc |-> "idle", workflow_id |-> "", call |-> 0, i |-> 0, completed_steps |-> {},
     progress_made |-> FALSE, pass_completed |-> 0]

\* nothing returned yet
NothingReturned ==
    [op |-> "none", workflow_id |-> "", status |-> "none", steps |-> <<>>, before |-> <<>>,
     completed_steps |-> 0, total_steps |-> 0, pass_completed |-> 0]

\* MultiAgentCoordinator.__init__: no workflow
WorkflowIdle ==
    /\ workflows = <<>>
    /\ coordination_log = <<>>
    /\ execution = NotExecuting
    /\ executed = <<>>
    /\ wf_returned = NothingReturned
    /\ wf_calls = [create |-> 0, execute |-> 0]

\* AgentState
IDLE == "idle"
THINKING == "thinking"
ACTING == "acting"
COMPLETED == "completed"
ERROR == "error"

\* self.max_reasoning_steps = 10
max_reasoning_steps == 10

\* a situation the agent reasons about: what the caller said, or which action
\* came before it and whether that action failed
Situation(said, previous, failed) ==
    [said |-> said, previous |-> previous, failed |-> failed]

\* what generate_reasoning returns: an error, or the next action with its parameters
Reasoning(kind, next_action, parameters) ==
    [kind |-> kind, next_action |-> next_action, parameters |-> parameters]

\* no solve_task call is in progress
NotSolving ==
    [pc |-> "idle", task_id |-> "", step |-> 0,
     current_situation |-> Situation("", "", FALSE),
     reasoning |-> Reasoning("", "", ""), before |-> 0, reasoned |-> 0]

\* no solve_task call has returned since the last one began
NothingSolved ==
    [op |-> "", task_id |-> "", how |-> "", has_final_state |-> FALSE,
     final_state |-> "", steps_taken |-> 0, before |-> 0, reasoned |-> 0]

\* SimpleAgent.__init__ where the import of the LLM client failed: no task memory
TaskIdle ==
    /\ llm_available = FALSE
    /\ llm_plan = "search"
    /\ memory_store = <<>>
    /\ solving = NotSolving
    /\ solve_returned = NothingSolved
    /\ solve_calls = 0

\* none of the training phases' objects is in use
PhasesIdle ==
    /\ LoggedIdle
    /\ TicketsIdle
    /\ RoutingIdle
    /\ WorkflowIdle
    /\ TaskIdle

\* no expense record
NoExpense == [category |-> <<>>, amount |-> 0, has_receipt |-> FALSE]

Init ==
    /\ \E k \in CorpusSizes :
          /\ knowledge_base = AddDocuments(Documents(k))
          /\ distances \in [1..k -> DistancesOf(k)]
    /\ query \in Queries
    /\ max_results \in 1..MaxN
    /\ tie_reversed \in BOOLEAN
    /\ include \in IncludeSets
    /\ index_fails \in BOOLEAN
    /\ ret = NotCalled
    /\ request_log = <<>>
    /\ call_log = <<>>
    /\ mcp_calls_log = <<>>
    /\ operation_log = <<>>
    /\ customers = CustomerTable
    /\ SessionIdle
    /\ SingletonIdle
    /\ expense = NoExpense
    /\ PhasesIdle

Result(op, outcome) ==
    [op |-> op, status |-> outcome.status, kind |-> outcome.kind, docs |-> outcome.docs]

\* DirectKnowledgeService.search_knowledge_base(query, max_results)
DirectSearch ==
    /\ ret = NotCalled
    /\ ret' = Result("knowledge_service.search_knowledge_base",
                     KnowledgeServiceSearch(knowledge_base, distances, tie_reversed,
                                            include, index_fails, query, max_results))
    /\ UNCHANGED <<inputs, others, request_log, call_log, mcp_calls_log, operation_log>>

\* DirectCustomerSupportAgent.search_knowledge_base(query, max_results)
DirectAgentSearchResult(inner) == IF inner.status = "raised" THEN ReturnedList(<<>>) ELSE inner

DirectAgentSearch ==
    /\ ret = NotCalled
    /\ LET inner == KnowledgeServiceSearch(knowledge_base, distances, tie_reversed,
                                           include, index_fails, query, max_results)
       IN  /\ ret' = Result("direct_agent.search_knowledge_base",
                            DirectAgentSearchResult(inner))
           /\ call_log' =
                IF inner.status = "raised"
                THEN log_call(call_log, "search_knowledge_base",
                              [query |-> query], ReturnedError.kind)
                ELSE log_call(call_log, "search_knowledge_base",
                              [query |-> query, max_results |-> max_results], inner.kind)
    /\ UNCHANGED <<inputs, others, request_log, mcp_calls_log, operation_log>>

\* CustomerSupportMCPServer.handle_search_knowledge_base({query, max_results})
McpSearch ==
    /\ ret = NotCalled
    /\ LET outcome == McpHandlerSearch(knowledge_base, distances, tie_reversed,
                                       include, index_fails, query, max_results)
       IN  /\ ret' = Result("mcp_server.handle_search_knowledge_base", outcome)
           /\ request_log' =
                IF outcome.kind = "list"
                THEN log_request(request_log, "search_knowledge_base",
                                 [query |-> query, max_results |-> max_results], "list")
                ELSE log_request(request_log, "search_knowledge_base",
                                 [query |-> query], "str")
    /\ UNCHANGED <<inputs, others, call_log, mcp_calls_log, operation_log>>

\* MCPCustomerSupportAgent.search_knowledge_base(query, max_results), through the server
McpAgentSearch ==
    /\ ret = NotCalled
    /\ LET outcome == McpHandlerSearch(knowledge_base, distances, tie_reversed,
                                       include, index_fails, query, max_results)
           parsed_result == CallMcpTool(outcome)
       IN  /\ ret' = Result("mcp_agent.search_knowledge_base", parsed_result)
           /\ request_log' =
                IF outcome.kind = "list"
                THEN log_request(request_log, "search_knowledge_base",
                                 [query |-> query, max_results |-> max_results], "list")
                ELSE log_request(request_log, "search_knowledge_base",
                                 [query |-> query], "str")
           /\ mcp_calls_log' = log_call(mcp_calls_log, "search_knowledge_base",
                                        [query |-> query, max_results |-> max_results],
                                        parsed_result.kind)
    /\ UNCHANGED <<inputs, others, call_log, operation_log>>

\* CustomerSupportAgent.search_knowledge_base(query, n_results)
CsaSearchCall ==
    /\ ret = NotCalled
    /\ ret' = Result("customer_support_agent.search_knowledge_base",
                     CsaAgentSearch(knowledge_base, distances, tie_reversed,
                                    include, index_fails, query, max_results))
    /\ UNCHANGED <<inputs, others, request_log, call_log, mcp_calls_log, operation_log>>

-----------------------------------------------------------------------------
(* process_customer_inquiry of the three agents *)

\* max_results: int = 3 (direct_agent.py, mcp_agent.py)
DefaultMaxResults == 3

\* n_results=5 (customer_support_agent.py)
CsaDefaultNResults == 5

\* what _query_ollama returns, as json.loads sees it: a JSON object with or
\* without the asked fields, another JSON value, or text that is no JSON.  The
\* text _query_ollama builds when the request fails is either the object
\* asking for a ticket or, when the error message holds a quote, no JSON.
AskedKeys == {"response", "action_needed", "confidence"}

LlmOutcomes ==
    {[json |-> "object", keys |-> AskedKeys, action_needed |-> a] :
        a \in {"none", "create_ticket", "escalate"}}
    \cup {[json |-> "object", keys |-> {}, action_needed |-> "absent"],
          [json |-> "other", keys |-> {}, action_needed |-> "absent"],
          [json |-> "invalid", keys |-> {}, action_needed |-> "absent"]}

InquiryResult(op, status, keys, action, context, sources, relevant_docs) ==
    [op |-> op, status |-> status, kind |-> "dict", docs |-> relevant_docs.docs,
     search_kind |-> relevant_docs.kind, keys |-> keys, action_needed |-> action,
     knowledge_context |-> context, knowledge_sources |-> sources]

\* the knowledge_context of direct_agent.py 137-146 and mcp_agent.py 178-187
KnowledgeContext(relevant_docs) ==
    IF relevant_docs.kind = "list" /\ Len(relevant_docs.docs) > 0 THEN "documents"
    ELSE IF relevant_docs.kind # "list" THEN "search_returned_payload"
    ELSE "no_documents_found"

\* CustomerSupportAgent._generate_ai_response
CsaGenerateAiResponse(op, found, llm) ==
    LET relevant_docs == found.docs
        context == IF Len(relevant_docs) > 0 THEN "documents" ELSE "no_documents_found"
    IN  IF llm.json = "object"
        THEN InquiryResult(op, "returned",
                 llm.keys \cup {"processed_at", "customer_tier", "knowledge_sources",
                                "knowledge_categories"}
                          \cup (IF llm.action_needed = "create_ticket"
                                THEN {"ticket_created"} ELSE {}),
                 llm.action_needed, context, Len(relevant_docs), found)
        ELSE InquiryResult(op, "returned",
                 AskedKeys \cup {"error", "knowledge_sources", "knowledge_categories"},
                 "create_ticket", context, 0, found)

\* CustomerSupportAgent.process_customer_inquiry(customer_email, inquiry)
CsaProcessInquiry ==
    /\ ret = NotCalled
    /\ \E relevant_docs \in {CsaAgentSearch(knowledge_base, distances, tie_reversed,
                                             include, index_fails, query,
                                             CsaDefaultNResults)} :
         \E customer_email \in Emails, llm \in LlmOutcomes :
           LET op == "customer_support_agent.process_customer_inquiry"
           IN
             ret' = IF relevant_docs.status = "raised"
                    THEN InquiryResult(op, "raised", {}, "absent", "none", 0, relevant_docs)
                    ELSE CsaGenerateAiResponse(op, relevant_docs, llm)
    /\ UNCHANGED <<inputs, others, request_log, call_log, mcp_calls_log, operation_log>>

\* the dict of the except branch of direct_agent.py 224-231 and mcp_agent.py 270-278
InquiryFallback(op, context, docs) ==
    InquiryResult(op, "returned", AskedKeys \cup {"error"}, "create_ticket", context, 0, docs)

\* json.loads(ai_response), or the dict of the except json.JSONDecodeError branch
ParsedOrFallback(llm) ==
    IF llm.json = "invalid"
    THEN [json |-> "object", keys |-> AskedKeys, action_needed |-> "none"]
    ELSE llm

\* DirectCustomerSupportAgent.process_customer_inquiry(customer_email, inquiry)
DirectProcessInquiry ==
    /\ ret = NotCalled
    /\ \E inner \in {KnowledgeServiceSearch(knowledge_base, distances, tie_reversed,
                                             include, index_fails, query,
                                             DefaultMaxResults)} :
       LET relevant_docs == DirectAgentSearchResult(inner)
       IN
       \E customer_email \in Emails, llm \in LlmOutcomes :
        LET op == "direct_agent.process_customer_inquiry"
            customer_info == lookup_customer(customers, customer_email)
            log1 == log_call(call_log, "lookup_customer", [email |-> customer_email],
                             IF customer_info.found THEN "dict" ELSE "NoneType")
            log2 == IF inner.status = "raised"
                    THEN log_call(log1, "search_knowledge_base", [query |-> query],
                                  ReturnedError.kind)
                    ELSE log_call(log1, "search_knowledge_base",
                                  [query |-> query, max_results |-> DefaultMaxResults],
                                  inner.kind)
            context == KnowledgeContext(relevant_docs)
            result == ParsedOrFallback(llm)
            sources == IF relevant_docs.kind = "list" THEN Len(relevant_docs.docs) ELSE 0
        IN  IF result.json # "object"
            THEN /\ ret' = InquiryFallback(op, context, relevant_docs)
                 /\ call_log' = log2
            ELSE /\ ret' = InquiryResult(op, "returned",
                        result.keys
                        \cup (IF result.action_needed = "create_ticket"
                              THEN {"ticket_created"} ELSE {})
                        \cup {"processed_at", "customer_tier", "knowledge_sources",
                              "knowledge_categories", "processing_time_ms",
                              "retrieved_documents", "search_query",
                              "document_retrieval_summary"},
                        result.action_needed, context, sources, relevant_docs)
                 /\ call_log' =
                        IF result.action_needed = "create_ticket"
                        THEN log_call(log2, "create_support_ticket",
                                      [customer_email |-> customer_email,
                                       issue_type |-> "General Inquiry"], "dict")
                        ELSE log2
    /\ UNCHANGED <<inputs, others, request_log, mcp_calls_log, operation_log>>

\* MCPCustomerSupportAgent.process_customer_inquiry(customer_email, inquiry),
\* the session being established
McpProcessInquiry ==
    /\ ret = NotCalled
    /\ \E outcome \in {McpHandlerSearch(knowledge_base, distances, tie_reversed, include,
                                         index_fails, query, DefaultMaxResults)} :
       LET relevant_docs == CallMcpTool(outcome)
       IN
       \E customer_email \in Emails, llm \in LlmOutcomes :
        LET op == "mcp_agent.process_customer_inquiry"
            customer_info == lookup_customer(customers, customer_email)
            rlog1 == log_request(request_log, "lookup_customer",
                                 [email |-> customer_email],
                                 IF customer_info.found THEN "dict" ELSE "NoneType")
            clog1 == log_call(mcp_calls_log, "lookup_customer",
                              [email |-> customer_email],
                              IF customer_info.found THEN "dict" ELSE "NoneType")
            rlog2 == IF outcome.kind = "list"
                     THEN log_request(rlog1, "search_knowledge_base",
                                      [query |-> query,
                                       max_results |-> DefaultMaxResults], "list")
                     ELSE log_request(rlog1, "search_knowledge_base",
                                      [query |-> query], "str")
            clog2 == log_call(clog1, "search_knowledge_base",
                              [query |-> query, max_results |-> DefaultMaxResults],
                              relevant_docs.kind)
            context == KnowledgeContext(relevant_docs)
            result == ParsedOrFallback(llm)
            sources == IF relevant_docs.kind = "list" THEN Len(relevant_docs.docs) ELSE 0
            ticket_args == [customer_email |-> customer_email,
                            issue_type |-> "General Inquiry"]
        IN  IF result.json # "object"
            THEN /\ ret' = InquiryFallback(op, context, relevant_docs)
                 /\ request_log' = rlog2
                 /\ mcp_calls_log' = clog2
            ELSE /\ ret' = InquiryResult(op, "returned",
                        result.keys
                        \cup (IF result.action_needed = "create_ticket"
                              THEN {"ticket_created"} ELSE {})
                        \cup {"llm_prompt", "processed_at", "customer_tier",
                              "knowledge_sources", "knowledge_categories",
                              "mcp_calls_made", "retrieved_documents", "search_query",
                              "document_retrieval_summary"},
                        result.action_needed, context, sources, relevant_docs)
                 /\ request_log' =
                        IF result.action_needed = "create_ticket"
                        THEN log_request(rlog2, "create_support_ticket",
                                         [customer_email |-> customer_email,
                                          issue_type |-> "General Inquiry",
                                          priority |-> "medium"], "dict")
                        ELSE rlog2
                 /\ mcp_calls_log' =
                        IF result.action_needed = "create_ticket"
                        THEN log_call(clog2, "create_support_ticket",
                                      [customer_email |-> customer_email,
                                       issue_type |-> "General Inquiry",
                                       description |-> query,
                                       priority |-> "medium"], "dict")
                        ELSE clog2
    /\ UNCHANGED <<inputs, others, call_log, operation_log>>

\* VectorDatabase.search_similar(collection_name, query, n_results)
VectorSearchSimilar ==
    /\ ret = NotCalled
    /\ IF index_fails
       THEN /\ ret' = Result("vector_database.search_similar", ReturnedList(<<>>))
            /\ UNCHANGED operation_log
       ELSE LET formatted_results == SearchSimilar(knowledge_base, distances, tie_reversed,
                                                   include, max_results)
            IN  /\ ret' = Result("vector_database.search_similar",
                                 ReturnedList(formatted_results))
                /\ operation_log' =
                      log_operation(operation_log, "search_similar",
                                    [query |-> query, n_results |-> max_results,
                                     found |-> Len(formatted_results)])
    /\ UNCHANGED <<inputs, others, request_log, call_log, mcp_calls_log>>

Next ==
    \/ VectorSearchSimilar
    \/ DirectSearch
    \/ DirectAgentSearch
    \/ McpSearch
    \/ McpAgentSearch
    \/ CsaSearchCall

Spec == Init /\ [][Next]_vars

\* one inquiry: the index answers with ids and distances, ties in insertion order
InquiryInit ==
    /\ Init
    /\ max_results = DefaultMaxResults
    /\ ~tie_reversed
    /\ "distances" \in include

InquiryNext ==
    \/ CsaSearchCall
    \/ CsaProcessInquiry
    \/ DirectProcessInquiry
    \/ McpProcessInquiry

InquirySpec == InquiryInit /\ [][InquiryNext]_vars

-----------------------------------------------------------------------------
(* ExpenseAgent (expense_agent.py) *)

\* self.company_policies
MaxMeal == 75
MaxTravel == 500
MaxSupplies == 200
RequiresReceipt == 25

\* 0.08, in 1/100
TaxRatePercent == 8

Meal == <<"m", "e", "a", "l">>
Travel == <<"t", "r", "a", "v", "e", "l">>
Supplies == <<"s", "u", "p", "p", "l", "i", "e", "s">>

\* the expense records tried; amounts in dollars
ExpenseCategories ==
    {<<"b", "u", "s", "i", "n", "e", "s", "s", " ", "m", "e", "a", "l">>, Travel, <<"A", "i", "r", " ", "T", "r", "a", "v", "e", "l">>,
     <<"o", "f", "f", "i", "c", "e", " ", "s", "u", "p", "p", "l", "i", "e", "s">>, <<>>}

ExpenseAmounts == {20, 45, 80, 250, 600}

Expenses ==
    [category : ExpenseCategories, amount : ExpenseAmounts, has_receipt : BOOLEAN]

\* ExpenseAgent._check_against_policy
CheckAgainstPolicy(e) ==
    LET category == Lower(e.category)
    IN  IF Contains(Meal, category) /\ e.amount > MaxMeal THEN "exceeds_meal_limit"
        ELSE IF Contains(Travel, category) /\ e.amount > MaxTravel
             THEN "exceeds_travel_limit"
        ELSE IF Contains(Supplies, category) /\ e.amount > MaxSupplies
             THEN "exceeds_supplies_limit"
        ELSE IF e.amount > RequiresReceipt /\ ~e.has_receipt THEN "receipt_required"
        ELSE "complies"

\* ExpenseAgent._calculate_total, in cents
CalculateTotal(e) ==
    LET tax_rate == IF e.category # Travel THEN TaxRatePercent ELSE 0
        tax_amount == e.amount * tax_rate
    IN  [subtotal |-> e.amount * 100, tax |-> tax_amount,
         total |-> e.amount * 100 + tax_amount]

ExpenseAskedKeys == {"decision", "reasoning", "next_steps"}

\* what the request to the model gives: the text of a JSON object with or
\* without the asked fields, of another JSON value, text that is no JSON, or
\* a failed request, whose error message may hold a double quote
ExpenseLlmOutcomes ==
    {[llm |-> "object", keys |-> ExpenseAskedKeys, decision |-> d, quote |-> FALSE] :
        d \in {"APPROVED", "REJECTED", "NEEDS_REVIEW"}}
    \cup {[llm |-> k, keys |-> {}, decision |-> "absent", quote |-> FALSE] :
            k \in {"object", "other", "invalid"}}
    \cup {[llm |-> "request_failed", keys |-> {}, decision |-> "absent", quote |-> q] :
            q \in BOOLEAN}

\* ExpenseAgent._query_ollama: the text returned, as json.loads will see it;
\* the text built in the except branch embeds str(e) unescaped
ExpenseQueryOllama(outcome) ==
    IF outcome.llm = "request_failed"
    THEN IF outcome.quote
         THEN [json |-> "invalid", keys |-> {}, decision |-> "absent"]
         ELSE [json |-> "object", keys |-> ExpenseAskedKeys, decision |-> "NEEDS_REVIEW"]
    ELSE [json |-> outcome.llm, keys |-> outcome.keys, decision |-> outcome.decision]

ExpenseResult(status, keys, decision, policy_check, totals, outcome) ==
    [op |-> "expense_agent.check_expense", status |-> status,
     kind |-> IF status = "returned" THEN "dict" ELSE "exception", docs |-> <<>>,
     keys |-> keys, decision |-> decision, policy_check |-> policy_check,
     financial_summary |-> totals, llm |-> outcome]

\* _make_decision with except json.JSONDecodeError in place of except Exception
MakeDecisionCatchingJsonOnly(e, policy_check, totals, outcome) ==
    LET ai_decision == ExpenseQueryOllama(outcome)
    IN  IF ai_decision.json = "object"
        THEN ExpenseResult("returned",
                 ai_decision.keys \cup {"policy_check", "financial_summary", "processed_at"},
                 ai_decision.decision, policy_check, totals, outcome)
        ELSE IF ai_decision.json = "other"
        THEN ExpenseResult("raised", {}, "absent", policy_check, totals, outcome)
        ELSE ExpenseResult("returned",
                 ExpenseAskedKeys \cup {"policy_check", "financial_summary"},
                 "NEEDS_REVIEW", policy_check, totals, outcome)

\* ExpenseAgent._make_decision: json.loads, then the item assignments, which
\* raise TypeError on a JSON value that is no object; except Exception
MakeDecision(e, policy_check, totals, outcome) ==
    LET ai_decision == ExpenseQueryOllama(outcome)
    IN  IF ai_decision.json = "object"
        THEN ExpenseResult("returned",
                 ai_decision.keys \cup {"policy_check", "financial_summary", "processed_at"},
                 ai_decision.decision, policy_check, totals, outcome)
        ELSE ExpenseResult("returned",
                 ExpenseAskedKeys \cup {"policy_check", "financial_summary"},
                 "NEEDS_REVIEW", policy_check, totals, outcome)

\* nothing of the search is going on
SearchIdle ==
    /\ knowledge_base = <<>>
    /\ query = <<>>
    /\ max_results = 1
    /\ distances = <<>>
    /\ tie_reversed = FALSE
    /\ include = {}
    /\ index_fails = FALSE
    /\ ret = NotCalled
    /\ request_log = <<>>
    /\ call_log = <<>>
    /\ mcp_calls_log = <<>>
    /\ operation_log = <<>>

ExpenseInit ==
    /\ SearchIdle
    /\ customers = CustomerTable
    /\ SessionIdle
    /\ SingletonIdle
    /\ expense \in Expenses
    /\ PhasesIdle

\* ExpenseAgent.check_expense(expense_data)
CheckExpense ==
    /\ ret = NotCalled
    /\ \E outcome \in ExpenseLlmOutcomes :
          LET policy_check == CheckAgainstPolicy(expense)
              total_amount == CalculateTotal(expense)
          IN  ret' = MakeDecision(expense, policy_check, total_amount, outcome)
    /\ UNCHANGED <<inputs, others, request_log, call_log, mcp_calls_log, operation_log>>

ExpenseNext == CheckExpense

ExpenseSpec == ExpenseInit /\ [][ExpenseNext]_vars

-----------------------------------------------------------------------------
(* knowledge_service.py as a module: the global instance and its users *)

\* the get_knowledge_service() calls of one run, direct or from an agent's __init__
MaxGets == 4

\* the model argument of DirectCustomerSupportAgent(...)
AgentModels == {"llama3.2", "mistral"}

\* get_knowledge_service() without the test of the global: a new service each time
GetKnowledgeServiceAlwaysNew(current, built) ==
    [instance |-> built + 1, built |-> built + 1, constructed |-> TRUE]

\* get_knowledge_service(): current is the global (0 for None), built the number
\* of DirectKnowledgeService objects constructed so far; the constructor completes
GetKnowledgeService(current, built) ==
    IF current = 0
    THEN [instance |-> built + 1, built |-> built + 1, constructed |-> TRUE]
    ELSE [instance |-> current, built |-> built, constructed |-> FALSE]

SingletonInit ==
    /\ SearchIdle
    /\ customers = CustomerTable
    /\ SessionIdle
    /\ SingletonIdle
    /\ expense = NoExpense
    /\ PhasesIdle

\* the calls made so far
Gets == Len(returned) + Len(agents)

\* DirectKnowledgeService.setup_data: the index filled with the documents loaded
SetupData(got, documents) ==
    IF got.constructed THEN AddDocuments(documents) ELSE knowledge_base

\* a caller's get_knowledge_service()
GetKnowledgeServiceCall ==
    /\ Gets < MaxGets
    /\ \E k \in CorpusSizes :
         LET got == GetKnowledgeService(knowledge_service, constructions)
         IN  /\ knowledge_service' = got.instance
             /\ constructions' = got.built
             /\ knowledge_base' = SetupData(got, Documents(k))
             /\ returned' = Append(returned, got.instance)
    /\ UNCHANGED <<query, max_results, distances, tie_reversed, include, index_fails,
                   ret, request_log, call_log, mcp_calls_log, operation_log,
                   session, agents, expense,
                   phases>>

\* DirectCustomerSupportAgent(model=m)
CreateDirectAgent ==
    /\ Gets < MaxGets
    /\ \E m \in AgentModels, k \in CorpusSizes :
         LET got == GetKnowledgeService(knowledge_service, constructions)
         IN  /\ knowledge_service' = got.instance
             /\ constructions' = got.built
             /\ knowledge_base' = SetupData(got, Documents(k))
             /\ agents' = Append(agents, [model |-> m, knowledge_service |-> got.instance,
                                          call_log |-> <<>>])
    /\ UNCHANGED <<query, max_results, distances, tie_reversed, include, index_fails,
                   ret, request_log, call_log, mcp_calls_log, operation_log,
                   session, returned, expense,
                   phases>>

SingletonNext == GetKnowledgeServiceCall \/ CreateDirectAgent

SingletonSpec == SingletonInit /\ [][SingletonNext]_vars

-----------------------------------------------------------------------------
(* A session: calls made one after the other on the same objects *)

\* the calls of one session
MaxCalls == 3

SessionDocuments == Documents(2)

SessionQueries == {Query2, Query4}

\* the (query, max_results) of the searches of a session
SessionCalls ==
    {[query |-> Query2, max_results |-> 1], [query |-> Query2, max_results |-> 2],
     [query |-> Query4, max_results |-> 1]}

SessionEmails == {JohnEmailMixed, JohnEmailUpper, SarahEmail, NobodyEmail}

\* a deterministic index: the distances depend on the query and the documents
SessionDistances == {<<4996, 16007>>, <<16007, 4996>>}

FullInclude == {"ids", "distances"}

SessionInit ==
    /\ knowledge_base = AddDocuments(SessionDocuments)
    /\ server_knowledge_base = AddDocuments(SessionDocuments)
    /\ index \in [SessionQueries -> SessionDistances]
    /\ trace = <<>>
    /\ customers = CustomerTable
    /\ knowledge_service = 1
    /\ constructions = 1
    /\ agents = <<[model |-> "llama3.2", knowledge_service |-> 1, call_log |-> <<>>]>>
    /\ returned = <<>>
    /\ expense = NoExpense
    /\ PhasesIdle
    /\ query = <<>>
    /\ max_results = 1
    /\ distances = <<>>
    /\ tie_reversed = FALSE
    /\ include = FullInclude
    /\ index_fails = FALSE
    /\ ret = NotCalled
    /\ request_log = <<>>
    /\ call_log = <<>>
    /\ mcp_calls_log = <<>>
    /\ operation_log = <<>>

\* collection.add(...) where collection.query(...) is: the store grows
StoreAfterAdd(kb) == Append(kb, kb[1])

\* collection.query(...) reads the collection
StoreAfterQuery(kb) == kb

\* a search answering from what was logged: [] once a call has been logged
AgentSearchFromLog(log, kb, dist, q, n) ==
    IF log # <<>> THEN ReturnedList(<<>>)
    ELSE DirectAgentSearchResult(
             KnowledgeServiceSearch(kb, dist, tie_reversed, include, index_fails, q, n))

\* DirectCustomerSupportAgent.search_knowledge_base: self.call_log is written,
\* never read
AgentSearch(log, kb, dist, q, n) ==
    DirectAgentSearchResult(
        KnowledgeServiceSearch(kb, dist, tie_reversed, include, index_fails, q, n))

Called(op, q, n, email, docs, customer) ==
    [op |-> op, query |-> q, max_results |-> n, email |-> email, docs |-> docs,
     customer |-> customer]

\* agent.search_knowledge_base(query, max_results)
SessionDirectSearch ==
    /\ Len(trace) < MaxCalls
    /\ \E c \in SessionCalls :
         LET outcome == AgentSearch(call_log, knowledge_base, index[c.query],
                                    c.query, c.max_results)
         IN  /\ knowledge_base' = StoreAfterQuery(knowledge_base)
             /\ call_log' = log_call(call_log, "search_knowledge_base",
                                     [query |-> c.query, max_results |-> c.max_results],
                                     outcome.kind)
             /\ trace' = Append(trace, Called("direct_agent.search_knowledge_base",
                                              c.query, c.max_results, <<>>,
                                              outcome.docs, NoCustomer))
    /\ UNCHANGED <<query, max_results, distances, tie_reversed, include, index_fails,
                   ret, request_log, mcp_calls_log, operation_log,
                   customers, server_knowledge_base, index, singleton, expense,
                   phases>>

\* server.handle_search_knowledge_base({query, max_results})
SessionMcpSearch ==
    /\ Len(trace) < MaxCalls
    /\ \E c \in SessionCalls :
         LET outcome == McpHandlerSearch(server_knowledge_base, index[c.query],
                                         tie_reversed, include, index_fails,
                                         c.query, c.max_results)
         IN  /\ server_knowledge_base' = StoreAfterQuery(server_knowledge_base)
             /\ request_log' = log_request(request_log, "search_knowledge_base",
                                  [query |-> c.query, max_results |-> c.max_results],
                                  outcome.kind)
             /\ trace' = Append(trace, Called("mcp_server.handle_search_knowledge_base",
                                              c.query, c.max_results, <<>>,
                                              outcome.docs, NoCustomer))
    /\ UNCHANGED <<knowledge_base, query, max_results, distances, tie_reversed, include,
                   index_fails, ret, call_log, mcp_calls_log, operation_log,
                   customers, index, singleton, expense,
                   phases>>

\* agent.lookup_customer(email), through DirectKnowledgeService.lookup_customer
SessionLookupCustomer ==
    /\ Len(trace) < MaxCalls
    /\ \E email \in SessionEmails :
         LET result == lookup_customer(customers, email)
         IN  /\ call_log' = log_call(call_log, "lookup_customer", [email |-> email],
                                     IF result.found THEN "dict" ELSE "NoneType")
             /\ trace' = Append(trace, Called("direct_agent.lookup_customer",
                                              <<>>, 0, email, <<>>, result))
    /\ UNCHANGED <<inputs, ret, request_log, mcp_calls_log, operation_log,
                   customers, server_knowledge_base, index, singleton, expense,
                   phases>>

SessionNext == SessionDirectSearch \/ SessionMcpSearch \/ SessionLookupCustomer

SessionSpec == SessionInit /\ [][SessionNext]_vars

-----------------------------------------------------------------------------
(* Properties *)

OpService == "knowledge_service.search_knowledge_base"
OpDirectAgent == "direct_agent.search_knowledge_base"
OpMcpHandler == "mcp_server.handle_search_knowledge_base"
OpMcpAgent == "mcp_agent.search_knowledge_base"
OpCsa == "customer_support_agent.search_knowledge_base"
OpCsaInquiry == "customer_support_agent.process_customer_inquiry"
OpDirectInquiry == "direct_agent.process_customer_inquiry"
OpMcpInquiry == "mcp_agent.process_customer_inquiry"
OpSearchSimilar == "vector_database.search_similar"

\* the three implementations of search_knowledge_base
SearchOps == {OpService, OpMcpHandler, OpCsa}

\* the two that also count content matches
EnhancedOps == {OpService, OpMcpHandler}

\* a list came back from one of the three
ListReturned == ret.op \in SearchOps /\ ret.status = "returned" /\ ret.kind = "list"

\* C1: the list returned by search_knowledge_base is sorted by relevance_score
\* descending, ties by distance ascending: of two consecutive results the first
\* has the higher relevance_score, or the same and a distance not larger.
C1_ResultsSorted ==
    ListReturned =>
        \A i \in 1..(Len(ret.docs) - 1) :
            LET a == ret.docs[i]
                b == ret.docs[i + 1]
            IN  \/ a.relevance_score > b.relevance_score
                \/ a.relevance_score = b.relevance_score /\ a.distance <= b.distance

\* a result with more matches precedes a nearer one
C1_Witness ==
    /\ ListReturned
    /\ Len(ret.docs) >= 2
    /\ ret.docs[1].relevance_score > ret.docs[2].relevance_score
    /\ ret.docs[1].distance > ret.docs[2].distance

\* C2: the list returned by search_knowledge_base holds at most max_results
\* results (n_results for CustomerSupportAgent), whatever the corpus size.
C2_AtMostMaxResults == ListReturned => Len(ret.docs) <= max_results

\* the corpus holds more documents than asked for, and the limit is reached
C2_Witness ==
    /\ ListReturned
    /\ ret.op = OpCsa
    /\ Len(knowledge_base) > max_results
    /\ max_results < CsaTopK
    /\ Len(ret.docs) = max_results

\* C3: when the index query raises, DirectKnowledgeService.search_knowledge_base
\* and the DirectCustomerSupportAgent wrapper return an empty list and do not raise.
C3_DirectFailureGivesEmptyList ==
    (index_fails /\ ret.op \in {OpService, OpDirectAgent}) =>
        ret.status = "returned" /\ ret.kind = "list" /\ ret.docs = <<>>

\* the wrapper was called with a failing index, and logged the call
C3_Witness ==
    /\ index_fails
    /\ ret.op = OpDirectAgent
    /\ ret.status = "returned"
    /\ Len(call_log) = 1

\* C4: when the index query fails, CustomerSupportAgent.search_knowledge_base
\* returns an empty sequence instead of raising, and process_customer_inquiry
\* returns a response dict, the inquiry handled as with no document found.
C4_CsaFailureIsNotFatal ==
    (index_fails /\ ret.op \in {OpCsa, OpCsaInquiry}) =>
        /\ ret.status = "returned"
        /\ ret.docs = <<>>
        /\ ret.op = OpCsaInquiry =>
              ret.kind = "dict" /\ ret.knowledge_context = "no_documents_found"

\* C5: on the MCP path, when the index query fails in the handler, the caller
\* sees an empty result set and process_customer_inquiry goes on with the
\* context saying that no document was found, not with an error payload.
C5_McpFailureIsEmptyResult ==
    (index_fails /\ ret.op = OpMcpInquiry) =>
        /\ ret.search_kind = "list"
        /\ ret.docs = <<>>
        /\ ret.knowledge_context = "no_documents_found"

\* the documents of the corpus the index hands to the call: the max_results nearest
Candidates ==
    LET top == Nearest(knowledge_base, distances, tie_reversed, max_results)
    IN  {top[k] : k \in 1..Len(top)}

\* the index answered and a list came back
Answered == ListReturned /\ ~index_fails

\* document i of the corpus has a keyword that is one of the query's tokens
KeywordIsToken(i) ==
    \E words \in {QueryWords(query)} :
        \E w \in 1..Len(words), k \in 1..Len(AllDocuments[i].keywords) :
            words[w] = AllDocuments[i].keywords[k]

\* document i of the corpus is in the returned list
Returns(i) == \E j \in 1..Len(ret.docs) : ret.docs[j].content = knowledge_base[i].document

\* C6 as stated, for the calls the index answers: a corpus document with a
\* keyword among the tokens of the non-empty query gives at least one result
\* with relevance_score > 0, whatever the corpus size and the distances.
C6_AnyCorpusGivesAMatch ==
    (ret.op \in SearchOps /\ ~index_fails /\ QueryWords(query) # <<>>
        /\ \E i \in 1..Len(knowledge_base) : KeywordIsToken(i))
    => /\ ret.status = "returned"
       /\ \E j \in 1..Len(ret.docs) : ret.docs[j].relevance_score > 0

\* C6: when the index answers and a document with a keyword among the query's
\* tokens is one of the max_results nearest candidates, search_knowledge_base
\* returns at least one result with relevance_score > 0.
C6_CandidateGivesAMatch ==
    (Answered /\ \E i \in Candidates : KeywordIsToken(i))
    => \E j \in 1..Len(ret.docs) : ret.docs[j].relevance_score > 0

\* the corpus is larger than the limit, and the matching candidate is returned
\* on its keyword alone, its distance being beyond the threshold
C6_Witness ==
    /\ Answered
    /\ ret.op = OpService
    /\ Len(knowledge_base) > max_results
    /\ \E i \in Candidates :
          /\ KeywordIsToken(i)
          /\ "distances" \in include
          /\ distances[i] >= EnhancedThreshold
          /\ Returns(i)
    /\ \E j \in 1..Len(ret.docs) : ret.docs[j].relevance_score > 0

\* every document of the corpus scored as the enhanced variants score a candidate
ScoredCorpus ==
    LET all == QueryIndex(knowledge_base, distances, tie_reversed, include,
                          Len(knowledge_base))
    IN  [i \in 1..Len(all.documents) |-> EnhancedDoc(all, query, i)]

\* the corpus holds 5 documents and all 5 pass the inclusion filter
FiveQualify ==
    /\ Len(knowledge_base) = 5
    /\ \A i \in 1..5 : \/ ScoredCorpus[i].relevance_score > 0
                       \/ ScoredCorpus[i].distance < EnhancedThreshold

\* the scenario of C7: the enhanced search answered, max_results = 2, 5 qualify
TwoOfFive ==
    /\ ret.op \in EnhancedOps
    /\ Answered
    /\ max_results = 2
    /\ FiveQualify

\* C7 as stated: with max_results = 2 and 5 qualifying documents the result is
\* exactly the two highest-ranked of the 5 under (relevance_score descending,
\* distance ascending).
C7_TopTwoOfQualifying ==
    TwoOfFive =>
        /\ Len(ret.docs) = 2
        /\ LET ranked == SortDocs(ScoredCorpus)
           IN  \A j \in 1..2 :
                 /\ ret.docs[j].relevance_score = ranked[j].relevance_score
                 /\ ret.docs[j].distance = ranked[j].distance

\* C7: with max_results = 2 and 5 qualifying documents the result is exactly 2
\* documents, the 2 candidates nearest to the query (the index is asked for
\* max_results candidates only), in the order of the rule.
C7_TopTwoOfNearest ==
    TwoOfFive =>
        /\ Len(ret.docs) = 2
        /\ ret.docs[1].content # ret.docs[2].content
        /\ \A i \in 1..5 :
              Returns(i) =>
                  Cardinality({j \in 1..5 : distances[j] < distances[i]}) < 2
        /\ \/ ret.docs[1].relevance_score > ret.docs[2].relevance_score
           \/ /\ ret.docs[1].relevance_score = ret.docs[2].relevance_score
              /\ ret.docs[1].distance <= ret.docs[2].distance

\* a qualifying document with matches is left out for a nearer one with none
C7_Witness ==
    /\ TwoOfFive
    /\ Len(ret.docs) = 2
    /\ ret.docs[2].relevance_score = 0
    /\ \E p \in 1..5 :
          /\ ScoredCorpus[p].relevance_score > 0
          /\ \A j \in 1..2 : ret.docs[j].content # ScoredCorpus[p].content

\* keyword k of document i of the corpus is a whitespace-separated word of the query
KeywordIsWord(i, k) ==
    \E w \in 1..Len(SplitWs(query)) : SplitWs(query)[w] = AllDocuments[i].keywords[k]

\* the result for document i of the corpus lists keyword k among matched_keywords
ReturnsWithKeyword(i, k) ==
    \E j \in 1..Len(ret.docs) :
        /\ ret.docs[j].content = knowledge_base[i].document
        /\ "matched_keywords" \in DOMAIN ret.docs[j]
        /\ \E m \in 1..Len(ret.docs[j].matched_keywords) :
              ret.docs[j].matched_keywords[m] = AllDocuments[i].keywords[k]

\* C8 as stated, for the calls the index answers: a corpus document with a
\* keyword k that is a word of the query is in the result, k among its
\* matched_keywords.
C8_KeywordDocumentReturned ==
    (ret.op \in SearchOps /\ ~index_fails) =>
        \A i \in 1..Len(knowledge_base) :
            \A k \in 1..Len(AllDocuments[i].keywords) :
                KeywordIsWord(i, k) =>
                    ret.status = "returned" /\ ReturnsWithKeyword(i, k)

\* C8: in DirectKnowledgeService and the MCP handler, when the index answers, a
\* document with a keyword k that is a word of the query and that is one of the
\* max_results nearest candidates is in the result, k among its
\* matched_keywords; the results of CustomerSupportAgent carry no matched_keywords.
C8_KeywordCandidateReturned ==
    /\ (ret.op \in EnhancedOps /\ Answered) =>
          \A i \in Candidates :
              \A k \in 1..Len(AllDocuments[i].keywords) :
                  KeywordIsWord(i, k) => ReturnsWithKeyword(i, k)
    /\ (ret.op = OpCsa /\ Answered) =>
          \A j \in 1..Len(ret.docs) : "matched_keywords" \notin DOMAIN ret.docs[j]

\* the word is the second keyword of the document, which is returned with it
C8_Witness ==
    /\ ret.op \in EnhancedOps
    /\ Answered
    /\ \E i \in Candidates : KeywordIsWord(i, 2) /\ ReturnsWithKeyword(i, 2)

\* no word of the query is part of a keyword of a document of the corpus
NoKeywordMatch ==
    \A words \in {QueryWords(query)} :
        \A i \in 1..Len(knowledge_base) :
            \A w \in 1..Len(words), k \in 1..Len(AllDocuments[i].keywords) :
                ~Contains(words[w], AllDocuments[i].keywords[k])

\* no word of the query is part of the lower-cased text of a candidate
NoContentMatch ==
    \A words \in {QueryWords(query)} :
        \A i \in Candidates :
            \A w \in 1..Len(words) :
                ~Contains(words[w], Lower(knowledge_base[i].document))

\* the index gave distances, and each candidate's is at or beyond the threshold
AllFar(threshold) ==
    /\ "distances" \in include
    /\ \A i \in Candidates : distances[i] >= threshold

\* the threshold of the variant called
ThresholdOf(op) == IF op = OpCsa THEN CsaThreshold ELSE EnhancedThreshold

\* C9 as stated, for the calls the index answers: no keyword matching a word of
\* the query and every candidate at or beyond the variant's threshold give an
\* empty result, in every variant.
C9_FarAndUnmatchedIsEmpty ==
    (ret.op \in SearchOps /\ ~index_fails /\ NoKeywordMatch /\ AllFar(ThresholdOf(ret.op)))
    => ret.status = "returned" /\ ret.docs = <<>>

\* C9: no keyword matching a word of the query and every candidate at or beyond
\* the variant's threshold give an empty result in CustomerSupportAgent; in
\* DirectKnowledgeService and the MCP handler they do when, in addition, no word
\* of the query is part of a candidate's lower-cased text.
C9_FarAndUnmatchedAnywhereIsEmpty ==
    (Answered /\ NoKeywordMatch /\ AllFar(ThresholdOf(ret.op))
        /\ (ret.op \in EnhancedOps => NoContentMatch))
    => ret.docs = <<>>

\* a candidate exactly at the threshold of CustomerSupportAgent is dropped
C9_Witness ==
    /\ ret.op = OpCsa
    /\ Answered
    /\ NoKeywordMatch
    /\ AllFar(CsaThreshold)
    /\ \E i \in Candidates : distances[i] = CsaThreshold
    /\ ret.docs = <<>>

\* C10 as stated: every result of every variant of search_knowledge_base
\* carries similarity = round(1 - distance, 3).
C10_SimilarityEverywhere ==
    ListReturned =>
        \A j \in 1..Len(ret.docs) :
            /\ "similarity" \in DOMAIN ret.docs[j]
            /\ ret.docs[j].similarity % 10 = 0
            /\ 2 * (ret.docs[j].similarity - (One - ret.docs[j].distance)) <= 10
            /\ 2 * ((One - ret.docs[j].distance) - ret.docs[j].similarity) <= 10

\* C10: every result of DirectKnowledgeService and of the MCP handler carries
\* similarity = round(1 - distance, 3), distance being 0 when the index returns
\* none; VectorDatabase.search_similar rounds to 4 places; the results of
\* CustomerSupportAgent carry no similarity.
C10_SimilarityOfEnhanced ==
    /\ (ListReturned /\ ret.op \in EnhancedOps) =>
          \A j \in 1..Len(ret.docs) :
              /\ ret.docs[j].similarity % 10 = 0
              /\ 2 * (ret.docs[j].similarity - (One - ret.docs[j].distance)) <= 10
              /\ 2 * ((One - ret.docs[j].distance) - ret.docs[j].similarity) <= 10
    /\ (ret.op = OpSearchSimilar /\ ret.status = "returned") =>
          \A j \in 1..Len(ret.docs) :
              ret.docs[j].similarity = One - ret.docs[j].distance
    /\ (ListReturned /\ ret.op = OpCsa) =>
          \A j \in 1..Len(ret.docs) : "similarity" \notin DOMAIN ret.docs[j]

\* the rounding acted: 1 - 0.4996 = 0.5004 became 0.5, and 1 - 1.6007 became -0.601
C10_Witness ==
    /\ ListReturned
    /\ ret.op = OpMcpHandler
    /\ \E j \in 1..Len(ret.docs) :
          ret.docs[j].similarity # One - ret.docs[j].distance
    /\ \E j \in 1..Len(ret.docs) : ret.docs[j].similarity < 0

\* the stripped lower-cased keywords of a result
ResultKeywords(r) == {Strip(Lower(r.keywords[k])) : k \in 1..Len(r.keywords)}

\* C12 as stated: in every result of DirectKnowledgeService and the MCP
\* handler each element of matched_keywords is one of the document's keywords.
C12_MatchedAreDocumentKeywords ==
    (ListReturned /\ ret.op \in EnhancedOps) =>
        \A j \in 1..Len(ret.docs) :
            \A m \in 1..Len(ret.docs[j].matched_keywords) :
                ret.docs[j].matched_keywords[m] \in ResultKeywords(ret.docs[j])

\* C12: in every result of DirectKnowledgeService and the MCP handler each
\* element of matched_keywords is a lower-cased word of the query that is a
\* substring of one of the document's keywords (not the keyword itself).
C12_MatchedAreQueryWords ==
    (ListReturned /\ ret.op \in EnhancedOps) =>
        \A j \in 1..Len(ret.docs) :
            \A m \in 1..Len(ret.docs[j].matched_keywords) :
                /\ \E w \in 1..Len(QueryWords(query)) :
                      ret.docs[j].matched_keywords[m] = QueryWords(query)[w]
                /\ \E kw \in ResultKeywords(ret.docs[j]) :
                      Contains(ret.docs[j].matched_keywords[m], kw)

\* a matched word that is part of a keyword and is none of the keywords
C12_Witness ==
    /\ ListReturned
    /\ ret.op \in EnhancedOps
    /\ \E j \in 1..Len(ret.docs) :
          \E m \in 1..Len(ret.docs[j].matched_keywords) :
              ret.docs[j].matched_keywords[m] \notin ResultKeywords(ret.docs[j])

\* the candidates of the call, scored as the enhanced variants score them
ScoredCandidates ==
    LET results == QueryIndex(knowledge_base, distances, tie_reversed, include,
                              max_results)
    IN  [p \in 1..Len(results.documents) |-> EnhancedDoc(results, query, p)]

\* C15: every returned result has relevance_score > 0 or distance < the
\* variant's threshold (1.5, and 0.5 in CustomerSupportAgent); in
\* DirectKnowledgeService and the MCP handler, which ask the index for exactly
\* max_results candidates, every candidate with relevance_score > 0 or
\* distance < 1.5 is in the result.
C15_InclusionFilter ==
    Answered =>
        /\ \A j \in 1..Len(ret.docs) :
              \/ ret.docs[j].relevance_score > 0
              \/ ret.docs[j].distance < ThresholdOf(ret.op)
        /\ ret.op \in EnhancedOps =>
              \A scored \in {ScoredCandidates} :
                  \A p \in 1..Len(scored) :
                      (scored[p].relevance_score > 0
                          \/ scored[p].distance < EnhancedThreshold)
                      => \E j \in 1..Len(ret.docs) :
                            ret.docs[j].content = scored[p].content

\* one candidate is dropped by the filter while a far one with a match is kept
C15_Witness ==
    /\ Answered
    /\ ret.op \in EnhancedOps
    /\ Len(ret.docs) < Len(ScoredCandidates)
    /\ \E j \in 1..Len(ret.docs) :
          ret.docs[j].relevance_score > 0 /\ ret.docs[j].distance >= EnhancedThreshold

\* the number of words of the query, each occurrence counted, that are part
\* of one of the strings
Occurrences(strings) ==
    LET Count(words) ==
            Cardinality({w \in 1..Len(words) : \E s \in strings : Contains(words[w], s)})
    IN  Count(QueryWords(query))

\* the keywords document i of the corpus was loaded with
KeywordsOf(i) == {AllDocuments[i].keywords[k] : k \in 1..Len(AllDocuments[i].keywords)}

\* C16: relevance_score of a result is the number of lower-cased whitespace
\* tokens of the query (each occurrence counted) that are a substring of one
\* of the document's keywords, plus, in DirectKnowledgeService and the MCP
\* handler, the number that are a substring of the lower-cased text; it is a
\* natural number.
C16_RelevanceScore ==
    ListReturned =>
        \A j \in 1..Len(ret.docs) :
            \A i \in 1..Len(knowledge_base) :
                knowledge_base[i].document = ret.docs[j].content =>
                    /\ ret.docs[j].relevance_score \in Nat
                    /\ ret.docs[j].relevance_score =
                          Occurrences(KeywordsOf(i))
                          + (IF ret.op \in EnhancedOps
                             THEN Occurrences({Lower(AllDocuments[i].text)})
                             ELSE 0)

\* the query repeats a word, and both occurrences are counted
C16_Witness ==
    /\ ListReturned
    /\ query = Query6
    /\ \E j \in 1..Len(ret.docs) : ret.docs[j].relevance_score = 2

\* the n_results of the call of CustomerSupportAgent.search_knowledge_base
CsaCallNResults == IF ret.op = OpCsaInquiry THEN CsaDefaultNResults ELSE max_results

\* the kept documents of that call, sorted, before the last line of the function
CsaSortedKept ==
    SortDocs(CsaKept(QueryIndex(knowledge_base, distances, tie_reversed, include,
                                CsaCallNResults), query, 1))

\* C17: the value returned by CustomerSupportAgent.search_knowledge_base is the
\* sorted list of kept documents cut to its first 3 elements, so it has
\* min(3, number kept) elements, for n_results below, at and above 3.
C17_TopThreeIsTruncation ==
    (ret.op \in {OpCsa, OpCsaInquiry} /\ ret.status = "returned" /\ ~index_fails) =>
        \A kept \in {CsaSortedKept} :
            /\ ret.docs = SubSeq(kept, 1, Min(CsaTopK, Len(kept)))
            /\ Len(ret.docs) = Min(CsaTopK, Len(kept))

\* n_results = 5 and all 5 documents kept: 3 returned
C17_Witness ==
    /\ ret.op = OpCsaInquiry
    /\ ret.status = "returned"
    /\ ~index_fails
    /\ Len(CsaSortedKept) = 5
    /\ Len(ret.docs) = CsaTopK

\* C13: CustomerSupportAgent.process_customer_inquiry returns, for every
\* customer email, inquiry and outcome of the LLM call, a dict with the keys
\* 'response' and 'confidence', and never raises.
C13_CsaInquiryAlwaysAnswers ==
    ret.op = OpCsaInquiry =>
        /\ ret.status = "returned"
        /\ ret.kind = "dict"
        /\ {"response", "confidence"} \subseteq ret.keys

OpExpense == "expense_agent.check_expense"

C19_OneKnowledgeService ==
    /\ Gets = 0 => constructions = 0 /\ knowledge_service = 0
    /\ Gets > 0 =>
          /\ constructions = 1
          /\ knowledge_service = 1
          /\ \A i \in 1..Len(returned) : returned[i] = knowledge_service
          /\ \A a \in 1..Len(agents) : agents[a].knowledge_service = knowledge_service

\* two agents and two direct callers share the one instance
C19_Witness ==
    /\ Len(agents) = 2
    /\ Len(returned) = 2
    /\ constructions = 1
    /\ agents[1].knowledge_service = returned[2]
    /\ agents[2].knowledge_service = returned[1]

OpLookup == "direct_agent.lookup_customer"

\* the searches among the calls of the session
Searches == {i \in 1..Len(trace) : trace[i].op \in {OpDirectAgent, OpMcpHandler}}

\* C11: whatever searches have been made, the index of the service and the index
\* of the MCP server hold the documents loaded at startup, and the customer
\* table and the service instance are as they were; only the logs have grown.
C11_StoreUnchangedBySearch ==
    /\ knowledge_base = AddDocuments(SessionDocuments)
    /\ server_knowledge_base = AddDocuments(SessionDocuments)
    /\ customers = CustomerTable
    /\ knowledge_service = 1
    /\ constructions = 1
    /\ Len(call_log) + Len(request_log) = Len(trace)

\* three searches were made, on both paths, and logged
C11_Witness ==
    /\ Cardinality(Searches) = 3
    /\ Len(call_log) >= 1
    /\ Len(request_log) >= 1
    /\ knowledge_base = AddDocuments(SessionDocuments)

C20_LookupIgnoresCase ==
    /\ customers = CustomerTable
    /\ \A i \in 1..Len(trace) :
          trace[i].op = OpLookup =>
              /\ trace[i].email \in {JohnEmail, JohnEmailMixed, JohnEmailUpper}
                    => trace[i].customer.found /\ trace[i].customer.name = "John Doe"
              /\ trace[i].email = SarahEmail
                    => trace[i].customer.found /\ trace[i].customer.name = "Sarah Smith"
              /\ trace[i].email = NobodyEmail => trace[i].customer = NoCustomer

\* an address in capitals found, an unknown one not
C20_Witness ==
    /\ Len(trace) >= 2
    /\ trace[1].op = OpLookup
    /\ trace[1].email = JohnEmailUpper
    /\ trace[1].customer.name = "John Doe"
    /\ trace[2].op = OpLookup
    /\ trace[2].email = NobodyEmail
    /\ ~trace[2].customer.found


-----------------------------------------------------------------------------
(* C28: matched_keywords against the words that were counted *)

\* the positions of the query's words that are part of a keyword of result r
Contributing(words, r) ==
    {w \in 1..Len(words) : \E kw \in ResultKeywords(r) : Contains(words[w], kw)}

\* C28: in every result of DirectKnowledgeService and the MCP handler,
\* matched_keywords is the query's words that are part of a keyword of the
\* document, each as often and in the order the query has it; it is no longer
\* than relevance_score, and relevance_score > 0 when it is not empty.
C28_MatchedAreTheCountedWords ==
    (ListReturned /\ ret.op \in EnhancedOps) =>
        \A words \in {QueryWords(query)} :
            \A j \in 1..Len(ret.docs) :
                \A counted \in {Contributing(words, ret.docs[j])} :
                    /\ Len(ret.docs[j].matched_keywords) = Cardinality(counted)
                    /\ \A w \in counted :
                          ret.docs[j].matched_keywords[Cardinality({v \in counted : v <= w})]
                              = words[w]
                    /\ Len(ret.docs[j].matched_keywords) <= ret.docs[j].relevance_score
                    /\ (ret.docs[j].matched_keywords # <<>> => ret.docs[j].relevance_score > 0)

\* a result that lists a word twice, the query having it twice
C28_Witness ==
    /\ ListReturned
    /\ ret.op \in EnhancedOps
    /\ \E j \in 1..Len(ret.docs) :
          /\ Len(ret.docs[j].matched_keywords) = 2
          /\ ret.docs[j].matched_keywords[1] = ret.docs[j].matched_keywords[2]
          /\ ret.docs[j].relevance_score >= 2


-----------------------------------------------------------------------------
(* The logs of a long-running server and agent: mcp_server.py, direct_agent.py *)

\* the calls made after a log has become full
MaxLogged == 2

\* what the handlers of CustomerSupportMCPServer pass to log_request
McpLogged ==
    {<<"search_knowledge_base", [query |-> Query2, max_results |-> 3], "list">>,
     <<"search_knowledge_base", [query |-> Query2], "str">>,
     <<"lookup_customer", [email |-> JohnEmail], "dict">>,
     <<"lookup_customer", [email |-> NobodyEmail], "NoneType">>,
     <<"get_server_stats", <<>>, "dict">>}

\* what the methods of DirectCustomerSupportAgent pass to log_call
DirectLogged ==
    {<<"search_knowledge_base", [query |-> Query2, max_results |-> 3], "list">>,
     <<"search_knowledge_base", [query |-> Query2], "error">>,
     <<"lookup_customer", [email |-> JohnEmail], "dict">>,
     <<"create_support_ticket", [customer_email |-> JohnEmail], "dict">>}

\* the i-th request of a session: lookups and searches in turn
EarlierRequest(i) ==
    IF i % 2 = 1 THEN <<"lookup_customer", [email |-> JohnEmail], "dict">>
    ELSE <<"search_knowledge_base", [query |-> Query2, max_results |-> 3], "list">>

\* what the i-th logging tool call of the server logs: lookups and searches in
\* turn until the log is full, anything after that
McpLoggedAt(i) == IF i <= RequestLogMax THEN {EarlierRequest(i)} ELSE McpLogged

\* what the i-th call of the agent logs
DirectLoggedAt(i) == IF i <= CallLogMax THEN {EarlierRequest(i)} ELSE DirectLogged

\* the entry log_request and log_call build from what they are given
RequestEntry(c) == [tool |-> c[1], arguments |-> c[2], result_type |-> c[3]]
CallEntry(c) == [tool |-> c[1], arguments |-> c[2], result |-> c[3]]

LogInit ==
    /\ SearchIdle
    /\ customers = CustomerTable
    /\ SessionIdle
    /\ SingletonIdle
    /\ expense = NoExpense
    /\ PhasesIdle

\* a tool call on CustomerSupportMCPServer: the handler logs the request once
McpToolCall ==
    /\ Len(requests_logged) < RequestLogMax + MaxLogged
    /\ \E c \in McpLoggedAt(Len(requests_logged) + 1) :
          /\ request_log' = log_request(request_log, c[1], c[2], c[3])
          /\ requests_logged' = Append(requests_logged, RequestEntry(c))
    /\ UNCHANGED <<besidesLogs, call_log, calls_logged>>

\* search_knowledge_base, lookup_customer or create_ticket of
\* DirectCustomerSupportAgent: the method logs the call once
DirectAgentCall ==
    /\ Len(calls_logged) < CallLogMax + MaxLogged
    /\ \E c \in DirectLoggedAt(Len(calls_logged) + 1) :
          /\ call_log' = log_call(call_log, c[1], c[2], c[3])
          /\ calls_logged' = Append(calls_logged, CallEntry(c))
    /\ UNCHANGED <<besidesLogs, request_log, requests_logged>>

LogNext ==
    \/ McpToolCall
    \/ DirectAgentCall

LogSpec == LogInit /\ [][LogNext]_vars

\* C29: request_log holds at most 50 entries and call_log at most 20, and each
\* holds the most recent of the entries logged, in the order they were logged.
C29_LogsKeepTheMostRecent ==
    /\ Len(request_log) = Min(Len(requests_logged), RequestLogMax)
    /\ \A i \in 1..Len(request_log) :
          request_log[i] = requests_logged[Len(requests_logged) - Len(request_log) + i]
    /\ Len(call_log) = Min(Len(calls_logged), CallLogMax)
    /\ \A i \in 1..Len(call_log) :
          call_log[i] = calls_logged[Len(calls_logged) - Len(call_log) + i]

\* both logs are full, entries have been dropped from both, and the newest
\* entry of each differs from the one before it
C29_Witness ==
    /\ Len(requests_logged) > RequestLogMax
    /\ Len(request_log) = RequestLogMax
    /\ request_log[RequestLogMax] # request_log[RequestLogMax - 1]
    /\ Len(calls_logged) > CallLogMax
    /\ Len(call_log) = CallLogMax
    /\ call_log[CallLogMax] # call_log[CallLogMax - 1]


-----------------------------------------------------------------------------
(* C26: the ticket of an inquiry *)

\* C26 as stated: in every dict returned by process_customer_inquiry of
\* CustomerSupportAgent and of DirectCustomerSupportAgent, the key
\* 'ticket_created' is present if and only if action_needed is 'create_ticket'.
C26_TicketIffCreateTicket ==
    (ret.op \in {OpCsaInquiry, OpDirectInquiry} /\ ret.status = "returned") =>
        ("ticket_created" \in ret.keys <=> ret.action_needed = "create_ticket")


-----------------------------------------------------------------------------
(* CustomerServiceMCPServer._handle_create_support_ticket (phase2c_mcp_server.py) *)

\* the create_support_ticket calls of a session
MaxTicketCalls == 3

\* the days a session lasts
LastDay == 2

\* the customer_email and description arguments tried: strings, as the tool's
\* inputSchema has them ("" is also the default of a missing key)
TicketEmails == {<<>>, JohnEmailMixed, SarahEmail}

LateText == <<"l", "a", "t", "e">>

TicketDescriptions == {<<>>, LateText}

\* d[k] = v
DictSet(d, k, v) == [x \in DOMAIN d \cup {k} |-> IF x = k THEN v ELSE d[x]]

\* f"TKT-{date}-{hash(customer_email + description) % 10000:04d}", as mcp_server.py
\* builds it; the hash of a string is its length here
TicketIdHashed(date, stored, customer_email, description) ==
    <<"TKT", date, Len(customer_email \o description) % 10000>>

\* f"TKT-{datetime.now().strftime('%Y%m%d')}-{len(self.support_tickets) + 1:04d}"
TicketId(date, stored, customer_email, description) ==
    <<"TKT", date, Cardinality(DOMAIN stored) + 1>>

\* the dicts the handler returns
TicketError == [kind |-> "error", id |-> <<>>]
TicketSuccess(ticket) == [kind |-> "success", id |-> ticket.id]

\* what a call leaves in support_tickets and returns
HandleCreateSupportTicket(stored, date, email, description) ==
    LET customer_email == Lower(email)
    IN  IF customer_email = <<>> \/ description = <<>>
        THEN [stored |-> stored, result |-> TicketError]
        ELSE LET ticket_id == TicketId(date, stored, customer_email, description)
                 ticket == [id |-> ticket_id, customer_email |-> customer_email,
                            issue_type |-> "general", priority |-> "medium",
                            description |-> description, status |-> "Open",
                            created_at |-> date]
             IN  [stored |-> DictSet(stored, ticket_id, ticket),
                  result |-> TicketSuccess(ticket)]

TicketInit ==
    /\ SearchIdle
    /\ customers = CustomerTable
    /\ SessionIdle
    /\ SingletonIdle
    /\ expense = NoExpense
    /\ PhasesIdle

\* _handle_create_support_ticket(args)
CreateSupportTicket ==
    /\ Len(ticket_calls) < MaxTicketCalls
    /\ \E email \in TicketEmails, description \in TicketDescriptions :
          \E done \in {HandleCreateSupportTicket(support_tickets, today, email, description)} :
              /\ support_tickets' = done.stored
              /\ ticket_calls' = Append(ticket_calls,
                                        [customer_email |-> email,
                                         description |-> description,
                                         result |-> done.result,
                                         before |-> support_tickets,
                                         after |-> done.stored])
    /\ UNCHANGED <<besidesTickets, today>>

\* midnight
DayPasses ==
    /\ today < LastDay
    /\ today' = today + 1
    /\ UNCHANGED <<besidesTickets, support_tickets, ticket_calls>>

TicketNext ==
    \/ CreateSupportTicket
    \/ DayPasses

TicketSpec == TicketInit /\ [][TicketNext]_vars

\* the calls that returned success
Succeeded == {i \in 1..Len(ticket_calls) : ticket_calls[i].result.kind = "success"}

\* C27: after any sequence of create_support_ticket calls, the ids the
\* successful calls returned are pairwise distinct, each stored ticket is
\* stored under its id, the number of stored tickets is the number of
\* successful calls, and a call with an empty customer_email or an empty
\* description returned an error and left support_tickets as it was.
C27_TicketsDistinctAndCounted ==
    /\ \A i, j \in Succeeded : i # j => ticket_calls[i].result.id # ticket_calls[j].result.id
    /\ \A id \in DOMAIN support_tickets : support_tickets[id].id = id
    /\ Cardinality(DOMAIN support_tickets) = Cardinality(Succeeded)
    /\ \A i \in 1..Len(ticket_calls) :
          (ticket_calls[i].customer_email = <<>> \/ ticket_calls[i].description = <<>>) =>
              /\ ticket_calls[i].result.kind = "error"
              /\ ticket_calls[i].after = ticket_calls[i].before

\* two tickets for the same customer and description on the same day, then a
\* call without a description
C27_Witness ==
    /\ Len(ticket_calls) = 3
    /\ Succeeded = {1, 2}
    /\ ticket_calls[1].customer_email = ticket_calls[2].customer_email
    /\ ticket_calls[1].result.id[2] = ticket_calls[2].result.id[2]
    /\ ticket_calls[3].customer_email # <<>>
    /\ ticket_calls[3].description = <<>>
    /\ Cardinality(DOMAIN support_tickets) = 2


-----------------------------------------------------------------------------
(* Messages between the agents of MultiAgentCoordinator (phase2b_multi_agent.py) *)

\* the send_message calls of a session
MaxSends == 3

\* who sends, and the to_agent strings tried: two agents and a name no agent has
Senders == {"CoordinatorAgent", "ResearchAgent"}
Recipients == {"ResearchAgent", "AnalystAgent", "UnknownAgent"}

\* AgentMessage(from_agent, to_agent, ...): id is a fresh uuid4, the n-th one here
AgentMessage(n, from_agent, to_agent) ==
    [id |-> n, from_agent |-> from_agent, to_agent |-> to_agent]

\* get_outgoing_messages that leaves the outbox as it is
GetOutgoingKeeping(outbox) == [messages |-> outbox, outbox |-> outbox]

\* RAGEnhancedAgent.get_outgoing_messages: the copy returned, the outbox cleared
GetOutgoingMessages(outbox) == [messages |-> outbox, outbox |-> <<>>]

\* the inner loop of route_messages over the messages of one agent
RECURSIVE DeliverAll(_, _)
DeliverAll(st, outgoing) ==
    IF outgoing = <<>> THEN st
    ELSE LET message == Head(outgoing)
         IN  IF message.to_agent \in DOMAIN st.inbox
             THEN DeliverAll([st EXCEPT !.inbox[message.to_agent] = Append(@, message),
                                        !.history = Append(@, message)],
                             Tail(outgoing))
             ELSE DeliverAll(st, Tail(outgoing))

\* the outer loop of route_messages, from the i-th agent of self.agents on
RECURSIVE RouteFrom(_, _)
RouteFrom(st, i) ==
    IF i > Len(AgentNames) THEN st
    ELSE LET agent == AgentNames[i]
             got == GetOutgoingMessages(st.outbox[agent])
         IN  RouteFrom(DeliverAll([st EXCEPT !.outbox[agent] = got.outbox], got.messages),
                       i + 1)

RoutingInit ==
    /\ SearchIdle
    /\ customers = CustomerTable
    /\ SessionIdle
    /\ SingletonIdle
    /\ expense = NoExpense
    /\ PhasesIdle

\* the send_message tool of an agent
SendMessage ==
    /\ Len(messages_sent) < MaxSends
    /\ \E from_agent \in Senders, to_agent \in Recipients :
          LET message == AgentMessage(Len(messages_sent) + 1, from_agent, to_agent)
          IN  /\ message_outbox' = [message_outbox EXCEPT ![from_agent] = Append(@, message)]
              /\ messages_sent' = Append(messages_sent, message)
    /\ last_routed' = FALSE
    /\ UNCHANGED <<besidesRouting, message_inbox, message_history>>

\* MultiAgentCoordinator.route_messages()
RouteMessages ==
    /\ \E st \in {RouteFrom([inbox |-> message_inbox, outbox |-> message_outbox,
                             history |-> message_history], 1)} :
          /\ message_inbox' = st.inbox
          /\ message_outbox' = st.outbox
          /\ message_history' = st.history
    /\ last_routed' = TRUE
    /\ UNCHANGED <<besidesRouting, messages_sent>>

RoutingNext ==
    \/ SendMessage
    \/ RouteMessages

RoutingSpec == RoutingInit /\ [][RoutingNext]_vars

\* how often message m is in the list
TimesIn(m, list) == Cardinality({k \in 1..Len(list) : list[k] = m})

\* the messages of the list that agent sent, by their numbers, in the list's order
SentBy(agent, list) ==
    \A k, l \in 1..Len(list) :
        (k < l /\ list[k].from_agent = agent /\ list[l].from_agent = agent) =>
            list[k].id < list[l].id

\* C25: at every moment no message is in an inbox other than its to_agent's,
\* and none is in an inbox or in message_history more than once, however often
\* route_messages has run; right after route_messages every outbox is empty
\* and every message sent to a known agent is once in that agent's inbox and
\* once in message_history, the messages of one sender in their send order.
C25_RoutedOnceToTheAddressee ==
    /\ \A a \in AgentSet :
          \A k \in 1..Len(message_inbox[a]) :
              /\ message_inbox[a][k].to_agent = a
              /\ TimesIn(message_inbox[a][k], message_inbox[a]) = 1
    /\ \A k \in 1..Len(message_history) :
          TimesIn(message_history[k], message_history) = 1
    /\ last_routed =>
          /\ \A a \in AgentSet : message_outbox[a] = <<>>
          /\ \A k \in 1..Len(messages_sent) :
                messages_sent[k].to_agent \in AgentSet =>
                    /\ TimesIn(messages_sent[k], message_inbox[messages_sent[k].to_agent]) = 1
                    /\ TimesIn(messages_sent[k], message_history) = 1
          /\ \A a \in AgentSet :
                /\ SentBy(a, message_history)
                /\ \A b \in AgentSet : SentBy(a, message_inbox[b])

\* right after route_messages: a message to an unknown agent was dropped, and
\* an agent has two messages of one sender
C25_Witness ==
    /\ last_routed
    /\ Len(messages_sent) = 3
    /\ Len(message_history) = 2
    /\ messages_sent[1].to_agent = "UnknownAgent"
    /\ messages_sent[2].to_agent = "AnalystAgent"
    /\ messages_sent[3].to_agent = "AnalystAgent"
    /\ messages_sent[2].from_agent = messages_sent[3].from_agent
    /\ Len(message_inbox["AnalystAgent"]) = 2


-----------------------------------------------------------------------------
(* MultiAgentCoordinator.create_workflow and execute_workflow (phase2b_multi_agent.py) *)

\* the create_workflow and the execute_workflow calls of a session
MaxCreates == 2
MaxExecutes == 2

\* WorkflowStep(step_id, ..., depends_on): completed defaults to False
WorkflowStep(step_id, depends_on) ==
    [step_id |-> step_id, depends_on |-> depends_on, completed |-> FALSE]

\* the first three steps of create_customer_service_workflow
ServiceWorkflow ==
    <<WorkflowStep("research_customer", <<>>),
      WorkflowStep("research_knowledge", <<>>),
      WorkflowStep("analyze_situation", <<"research_customer", "research_knowledge">>)>>

\* a step listed before the step it depends on
ListedBackwards ==
    <<WorkflowStep("analyze_situation", <<"research_customer">>),
      WorkflowStep("research_customer", <<>>)>>

\* two steps that depend on each other, after one that can run
Circular ==
    <<WorkflowStep("research_customer", <<>>),
      WorkflowStep("analyze_situation", <<"generate_response">>),
      WorkflowStep("generate_response", <<"analyze_situation">>)>>

\* a step that depends on itself
OnItself == <<WorkflowStep("research_customer", <<"research_customer">>)>>

\* two steps with one step_id
SameId == <<WorkflowStep("research_customer", <<>>), WorkflowStep("research_customer", <<>>)>>

\* a step that depends on a step_id the workflow does not have
MissingStep ==
    <<WorkflowStep("research_customer", <<>>),
      WorkflowStep("analyze_situation", <<"research_customer", "validate_response">>)>>

WorkflowsTried ==
    {ServiceWorkflow, ListedBackwards, Circular, OnItself, SameId, MissingStep, <<>>}

\* the workflow_id arguments: create_workflow gets the first, execute_workflow either
WorkflowIds == {"customer_service"}
ExecuteIds == WorkflowIds \cup {"never_created"}

\* what _execute_workflow_step does: returns success, returns without success
\* (solve_task did not reach 'completed'), or raises (solve_task returned its
\* error dict, which has no 'final_state')
StepOutcomes == {"success", "no_success", "raised"}

\* only the first step's dependencies validated
ValidWorkflowFirstStep(steps) ==
    steps # <<>> =>
        \A k \in 1..Len(steps[1].depends_on) :
            steps[1].depends_on[k] \in {steps[j].step_id : j \in 1..Len(steps)}

\* create_workflow 294-298: no ValueError raised
ValidWorkflow(steps) ==
    LET step_ids == {steps[j].step_id : j \in 1..Len(steps)}
    IN  \A i \in 1..Len(steps) :
            \A k \in 1..Len(steps[i].depends_on) : steps[i].depends_on[k] \in step_ids

\* the dependency check left out
DependenciesIgnored(step, completed_steps) == TRUE

\* all(dep in completed_steps for dep in step.depends_on)
DependenciesSatisfied(step, completed_steps) ==
    \A k \in 1..Len(step.depends_on) : step.depends_on[k] \in completed_steps

\* while len(completed_steps) < 1: one completed step ends the loop
LoopGoesOnUntilOne(completed_steps, steps) == Cardinality(completed_steps) < 1

\* while len(completed_steps) < len(workflow["steps"])
LoopGoesOn(completed_steps, steps) == Cardinality(completed_steps) < Len(steps)

\* what create_workflow and execute_workflow return, with the workflows before the call
WorkflowReturn(op, workflow_id, status, steps, before, done, pass_completed) ==
    [op |-> op, workflow_id |-> workflow_id, status |-> status, steps |-> steps,
     before |-> before, completed_steps |-> done, total_steps |-> Len(steps),
     pass_completed |-> pass_completed]

WorkflowInit ==
    /\ SearchIdle
    /\ customers = CustomerTable
    /\ SessionIdle
    /\ SingletonIdle
    /\ expense = NoExpense
    /\ PhasesIdle

\* create_workflow(workflow_id, steps)
CreateWorkflow ==
    /\ execution.pc = "idle"
    /\ wf_calls.create < MaxCreates
    /\ wf_calls' = [wf_calls EXCEPT !.create = @ + 1]
    /\ \E workflow_id \in WorkflowIds, steps \in WorkflowsTried :
          IF ValidWorkflow(steps)
          THEN /\ workflows' = DictSet(workflows, workflow_id,
                                       [steps |-> steps, status |-> "created"])
               /\ wf_returned' = WorkflowReturn("create_workflow", workflow_id, "True",
                                                steps, workflows, 0, 0)
          ELSE /\ workflows' = workflows
               /\ wf_returned' = WorkflowReturn("create_workflow", workflow_id, "False",
                                                steps, workflows, 0, 0)
    /\ UNCHANGED <<besidesWorkflow, coordination_log, execution, executed>>

\* execute_workflow(workflow_id, initial_data) up to the try statement
ExecuteWorkflow ==
    /\ execution.pc = "idle"
    /\ wf_calls.execute < MaxExecutes
    /\ wf_calls' = [wf_calls EXCEPT !.execute = @ + 1]
    /\ \E workflow_id \in ExecuteIds :
          IF workflow_id \notin DOMAIN workflows
          THEN /\ wf_returned' = WorkflowReturn("execute_workflow", workflow_id, "absent",
                                                <<>>, workflows, 0, 0)
               /\ UNCHANGED <<workflows, execution>>
          ELSE /\ workflows' = [workflows EXCEPT ![workflow_id].status = "running"]
               /\ execution' = [pc |-> "while", workflow_id |-> workflow_id,
                                call |-> wf_calls.execute + 1, i |-> 0,
                                completed_steps |-> {}, progress_made |-> FALSE,
                                pass_completed |-> 0]
               /\ wf_returned' = NothingReturned
    /\ UNCHANGED <<besidesWorkflow, coordination_log, executed>>

\* the test of the while statement, and the return after the loop
WhileTest ==
    /\ execution.pc = "while"
    /\ LET workflow_id == execution.workflow_id
           steps == workflows[workflow_id].steps
       IN  IF LoopGoesOn(execution.completed_steps, steps)
           THEN /\ execution' = [execution EXCEPT !.pc = "for", !.i = 1,
                                                  !.progress_made = FALSE,
                                                  !.pass_completed = 0]
                /\ UNCHANGED <<workflows, wf_returned>>
           ELSE /\ workflows' = [workflows EXCEPT ![workflow_id].status = "completed"]
                /\ wf_returned' = WorkflowReturn("execute_workflow", workflow_id, "completed",
                                                 steps, workflows,
                                                 Cardinality(execution.completed_steps), 0)
                /\ execution' = NotExecuting
    /\ UNCHANGED <<besidesWorkflow, coordination_log, executed, wf_calls>>

\* one iteration of the for statement
ForIteration ==
    /\ execution.pc = "for"
    /\ LET workflow_id == execution.workflow_id
           steps == workflows[workflow_id].steps
           i == execution.i
           done == Cardinality(execution.completed_steps)
       IN  /\ i <= Len(steps)
           /\ IF steps[i].step_id \in execution.completed_steps
              THEN /\ execution' = [execution EXCEPT !.i = i + 1]
                   /\ UNCHANGED <<workflows, coordination_log, executed, wf_returned>>
              ELSE IF DependenciesSatisfied(steps[i], execution.completed_steps)
              THEN \E outcome \in StepOutcomes :
                     /\ executed' = Append(executed,
                                           [call |-> execution.call, i |-> i,
                                            step_id |-> steps[i].step_id,
                                            depends_on |-> steps[i].depends_on,
                                            outcome |-> outcome])
                     /\ CASE outcome = "success" ->
                               /\ workflows' = [workflows EXCEPT
                                                   ![workflow_id].steps[i].completed = TRUE]
                               /\ execution' = [execution EXCEPT
                                                   !.i = i + 1,
                                                   !.completed_steps = @ \cup {steps[i].step_id},
                                                   !.progress_made = TRUE,
                                                   !.pass_completed = @ + 1]
                               /\ coordination_log' =
                                      Append(coordination_log,
                                             [workflow_id |-> workflow_id,
                                              step_id |-> steps[i].step_id,
                                              status |-> "completed"])
                               /\ UNCHANGED wf_returned
                          [] outcome = "no_success" ->
                               /\ workflows' = [workflows EXCEPT ![workflow_id].status = "failed"]
                               /\ wf_returned' = WorkflowReturn("execute_workflow", workflow_id,
                                                                "failed", steps, workflows, done,
                                                                execution.pass_completed)
                               /\ execution' = NotExecuting
                               /\ UNCHANGED coordination_log
                          [] OTHER ->
                               /\ workflows' = [workflows EXCEPT ![workflow_id].status = "error"]
                               /\ wf_returned' = WorkflowReturn("execute_workflow", workflow_id,
                                                                "error", steps, workflows, done,
                                                                execution.pass_completed)
                               /\ execution' = NotExecuting
                               /\ UNCHANGED coordination_log
              ELSE /\ execution' = [execution EXCEPT !.i = i + 1]
                   /\ UNCHANGED <<workflows, coordination_log, executed, wf_returned>>
    /\ UNCHANGED <<besidesWorkflow, wf_calls>>

\* after the for statement: if not progress_made, else back to the while statement
EndOfPass ==
    /\ execution.pc = "for"
    /\ LET workflow_id == execution.workflow_id
           steps == workflows[workflow_id].steps
       IN  /\ execution.i > Len(steps)
           /\ IF ~execution.progress_made
              THEN /\ workflows' = [workflows EXCEPT ![workflow_id].status = "stuck"]
                   /\ wf_returned' = WorkflowReturn("execute_workflow", workflow_id, "stuck",
                                                    steps, workflows,
                                                    Cardinality(execution.completed_steps),
                                                    execution.pass_completed)
                   /\ execution' = NotExecuting
              ELSE /\ execution' = [execution EXCEPT !.pc = "while"]
                   /\ UNCHANGED <<workflows, wf_returned>>
    /\ UNCHANGED <<besidesWorkflow, coordination_log, executed, wf_calls>>

WorkflowNext ==
    \/ CreateWorkflow
    \/ ExecuteWorkflow
    \/ WhileTest
    \/ ForIteration
    \/ EndOfPass

WorkflowSpec == WorkflowInit /\ [][WorkflowNext]_vars

\* a call of execute_workflow that has started goes on
WorkflowLiveSpec == WorkflowSpec /\ WF_vars(WhileTest \/ ForIteration \/ EndOfPass)


\* C24: create_workflow returns False and leaves self.workflows as it was when
\* some step depends on a step_id that no step of the workflow has; otherwise
\* it returns True and the workflow is stored with its steps and status 'created'.
C24_CreateValidatesDependencies ==
    wf_returned.op = "create_workflow" =>
        LET steps == wf_returned.steps
            dangling == \E i, j \in 1..Len(steps) :
                            /\ j <= Len(steps[i].depends_on)
                            /\ \A s \in 1..Len(steps) : steps[s].step_id # steps[i].depends_on[j]
        IN  IF dangling
            THEN wf_returned.status = "False" /\ workflows = wf_returned.before
            ELSE /\ wf_returned.status = "True"
                 /\ wf_returned.workflow_id \in DOMAIN workflows
                 /\ workflows[wf_returned.workflow_id] = [steps |-> steps, status |-> "created"]

\* a workflow whose second step has the missing dependency is rejected while
\* another workflow is stored under the same workflow_id
C24_Witness ==
    /\ wf_returned.op = "create_workflow"
    /\ wf_returned.steps = MissingStep
    /\ wf_returned.status = "False"
    /\ wf_returned.workflow_id \in DOMAIN workflows
    /\ workflows[wf_returned.workflow_id].steps = ServiceWorkflow


\* the executions of steps made in the call-th execute_workflow call, in order
ExecutedIn(call) == {e \in 1..Len(executed) : executed[e].call = call}

\* C21: a step is executed only after every step_id of its depends_on has been
\* executed with success earlier in the same execute_workflow call, and in one
\* call no step, and no step_id, is executed twice.
C21_DependenciesFirstAndOnce ==
    \A e \in 1..Len(executed) :
        /\ \A k \in 1..Len(executed[e].depends_on) :
              \E f \in ExecutedIn(executed[e].call) :
                  /\ f < e
                  /\ executed[f].step_id = executed[e].depends_on[k]
                  /\ executed[f].outcome = "success"
        /\ \A f \in ExecutedIn(executed[e].call) :
              f # e => (executed[f].i # executed[e].i
                        /\ executed[f].step_id # executed[e].step_id)

\* a step listed first is executed in the second pass, after the step it
\* depends on; and a step is executed again in a second execute_workflow call
C21_Witness ==
    /\ Len(executed) >= 3
    /\ executed[1].call = 1 /\ executed[1].i = 2 /\ executed[1].outcome = "success"
    /\ executed[2].call = 1 /\ executed[2].i = 1
    /\ executed[2].depends_on = <<executed[1].step_id>>
    /\ executed[3].call = 2 /\ executed[3].i = 2

\* the last execution of a step in the call that has just returned
LastExecuted == executed[Len(executed)]

\* what a returned status says about the call: 'completed', every step was
\* executed with success; 'failed' or 'error', the last step executed did not
\* succeed or raised; 'stuck', the last pass completed no step, and each step
\* left either waits for a step_id that has not completed or has the step_id
\* of a completed step
StatusIsRight ==
    LET R == wf_returned
        mine == ExecutedIn(wf_calls.execute)
        completed == {executed[e].step_id : e \in {f \in mine : executed[f].outcome = "success"}}
    IN  /\ workflows[R.workflow_id].status = R.status
        /\ R.status = "completed" =>
              /\ \A i \in 1..Len(R.steps) :
                    /\ \E e \in mine : executed[e].i = i /\ executed[e].outcome = "success"
                    /\ workflows[R.workflow_id].steps[i].completed
              /\ R.completed_steps = R.total_steps
        /\ R.status = "failed" =>
              /\ mine # {}
              /\ LastExecuted.call = wf_calls.execute
              /\ LastExecuted.outcome = "no_success"
        /\ R.status = "error" =>
              /\ mine # {}
              /\ LastExecuted.call = wf_calls.execute
              /\ LastExecuted.outcome = "raised"
        /\ R.status = "stuck" =>
              /\ R.pass_completed = 0
              /\ R.completed_steps < R.total_steps
              /\ \A e \in mine : executed[e].outcome = "success"
              /\ \A i \in 1..Len(R.steps) :
                    (\A e \in mine : executed[e].i # i) =>
                        \/ R.steps[i].step_id \in completed
                        \/ \E k \in 1..Len(R.steps[i].depends_on) :
                              R.steps[i].depends_on[k] \notin completed

\* a pass that ends without a return has completed a step
PassesMakeProgress ==
    (execution.pc = "while" /\ execution.i > 0) => execution.pass_completed > 0

\* C22 as stated: execute_workflow always terminates, with a status among
\* completed, failed, stuck and error that says what happened.
C22_AlwaysTerminatesWithStatus ==
    /\ [](wf_returned.op = "execute_workflow" =>
            /\ wf_returned.status \in {"completed", "failed", "stuck", "error"}
            /\ StatusIsRight)
    /\ []PassesMakeProgress
    /\ (execution.pc # "idle") ~> (execution.pc = "idle")

\* What the code does (C22 but for the workflow_id that is not stored):
\* execute_workflow always terminates; for a workflow_id that is not in
\* self.workflows it returns a dict with 'error' and no 'status', and changes
\* nothing; for a stored workflow it returns a status among completed, failed,
\* stuck and error: 'completed' only when every step has completed, 'failed'
\* (or 'error', when the step raised) right after the executed step that did
\* not succeed, 'stuck' when a full pass has completed no step, as happens
\* when the steps left depend on each other.
TerminatesWithStatusIfStored ==
    /\ [](wf_returned.op = "execute_workflow" =>
            IF wf_returned.workflow_id \in DOMAIN wf_returned.before
            THEN /\ wf_returned.status \in {"completed", "failed", "stuck", "error"}
                 /\ StatusIsRight
            ELSE /\ wf_returned.status = "absent"
                 /\ workflows = wf_returned.before)
    /\ []PassesMakeProgress
    /\ (execution.pc # "idle") ~> (execution.pc = "idle")

\* the circular workflow has got stuck after its first step completed
C22_Witness ==
    /\ wf_returned.op = "execute_workflow"
    /\ wf_returned.status = "stuck"
    /\ wf_returned.total_steps = Len(Circular)
    /\ wf_returned.steps[2].depends_on = Circular[2].depends_on
    /\ wf_returned.completed_steps = 1
    /\ Len(executed) = 1


-----------------------------------------------------------------------------
(* training_phases/phase2a_simple_agent.py: SimpleAgent.solve_task *)

\* how many solve_task calls are made
MaxSolves == 2

\* the task created, and the task_ids solve_task is called with
TaskIds == {"task_1"}
SolveIds == TaskIds \cup {"task_never_created"}

\* what the caller says: with the word customer and an email address, or without
WithEmail == "Customer john.doe@email.com asks for a refund"
Plain == "How long does shipping take?"
Situations == {WithEmail, Plain}

\* the tools _register_basic_tools registers
available_actions == {"calculator", "lookup_customer", "search_knowledge", "create_ticket"}

\* a next_action that is a JSON list, which no dict can look up
Unhashable == {"[search_knowledge]"}

\* the tool the model names at a step: always the search, the customer first,
\* or a tool the agent does not have
Plans == {"search", "lookup_first", "unknown_tool"}

LlmTool(plan, step) ==
    CASE plan = "search" -> "search_knowledge"
      [] plan = "lookup_first" ->
            IF step = 0 THEN "lookup_customer" ELSE "search_knowledge"
      [] OTHER -> "fly_to_moon"

\* what generate_reasoning can return when the model is asked: an error (the
\* request or json.loads failed, or the JSON has the key), 'complete', no
\* next_action, a tool with its parameters (an object with the required keys,
\* an object without them, or null), or a next_action that is a list
LlmReasonings(plan, step) ==
    {Reasoning("error", "", ""), Reasoning("tool", "complete", "object"),
     Reasoning("none", "", "object")}
    \cup {Reasoning("tool", LlmTool(plan, step), p) : p \in {"object", "incomplete", "null"}}
    \cup {Reasoning("tool", a, "object") : a \in Unhashable}

\* "customer" in current_situation.lower(), "@" in current_situation
MentionsCustomer(current_situation) ==
    current_situation.said = WithEmail \/ current_situation.previous = "lookup_customer"

HasAt(current_situation) == current_situation.said = WithEmail

\* _fallback_reasoning: the customer lookup for a first step on a situation
\* with an email address, the knowledge search otherwise
FallbackReasoning(memory, current_situation) ==
    IF /\ MentionsCustomer(current_situation)
       /\ memory.steps_taken = <<>>
       /\ HasAt(current_situation)
    THEN Reasoning("tool", "lookup_customer", "object")
    ELSE Reasoning("tool", "search_knowledge", "object")

\* generate_reasoning
GenerateReasonings(available, plan, memory, step, current_situation) ==
    IF ~available
    THEN {FallbackReasoning(memory, current_situation)}
    ELSE LlmReasonings(plan, step)

\* execute_action: the membership test and the test of the required
\* parameters stand before the try
ExecuteAction(action_name, parameters) ==
    CASE action_name \in Unhashable -> "raised"
      [] action_name \notin available_actions -> "error"
      [] parameters = "null" -> "raised"
      [] parameters = "incomplete" -> "error"
      [] OTHER -> "success"

\* for step in range(11)
ReasoningGoesOnOneMore(step) == step < max_reasoning_steps + 1

\* for step in range(self.max_reasoning_steps)
ReasoningGoesOn(step) == step < max_reasoning_steps

\* what solve_task returns, with how it came to return and how many times it
\* had called generate_reasoning
SolveReturn(task_id, how, has_final_state, final_state, steps_taken, before, reasoned) ==
    [op |-> "solve_task", task_id |-> task_id, how |-> how,
     has_final_state |-> has_final_state, final_state |-> final_state,
     steps_taken |-> steps_taken, before |-> before, reasoned |-> reasoned]

\* memory.current_state = state
InState(store, task_id, state) ==
    DictSet(store, task_id, [store[task_id] EXCEPT !.current_state = state])

TaskInit ==
    /\ SearchIdle
    /\ customers = CustomerTable
    /\ SessionIdle
    /\ SingletonIdle
    /\ expense = NoExpense
    /\ LoggedIdle
    /\ TicketsIdle
    /\ RoutingIdle
    /\ WorkflowIdle
    /\ llm_available \in BOOLEAN
    /\ llm_plan \in (IF llm_available THEN Plans ELSE {"search"})
    /\ memory_store = <<>>
    /\ solving = NotSolving
    /\ solve_returned = NothingSolved
    /\ solve_calls = 0

\* create_task_memory(task_id, goal)
CreateTaskMemory ==
    \E task_id \in TaskIds :
        /\ solving.pc = "idle"
        /\ memory_store' = DictSet(memory_store, task_id,
                                   [current_state |-> IDLE, steps_taken |-> <<>>])
        /\ solve_returned' = NothingSolved
        /\ UNCHANGED <<llm_available, llm_plan, solving, solve_calls, besidesTask>>

\* solve_task(task_id, initial_situation), up to the loop
SolveTask ==
    \E task_id \in SolveIds, initial_situation \in Situations :
        /\ solving.pc = "idle"
        /\ solve_calls < MaxSolves
        /\ solve_calls' = solve_calls + 1
        /\ IF task_id \notin DOMAIN memory_store
           THEN /\ solve_returned' = SolveReturn(task_id, "absent", FALSE, "", 0, 0, 0)
                /\ UNCHANGED <<memory_store, solving>>
           ELSE /\ memory_store' = InState(memory_store, task_id, THINKING)
                /\ solving' = [pc |-> "for", task_id |-> task_id, step |-> 0,
                               current_situation |-> Situation(initial_situation, "", FALSE),
                               reasoning |-> Reasoning("", "", ""),
                               before |-> Len(memory_store[task_id].steps_taken),
                               reasoned |-> 0]
                /\ solve_returned' = NothingSolved
        /\ UNCHANGED <<llm_available, llm_plan, besidesTask>>

\* the loop body up to execute_action: generate_reasoning, the return on an
\* error, the break when the task is complete
Reason ==
    /\ solving.pc = "for"
    /\ ReasoningGoesOn(solving.step)
    /\ \E reasoning \in GenerateReasonings(llm_available, llm_plan,
                                           memory_store[solving.task_id],
                                           solving.step, solving.current_situation) :
          LET memory == memory_store[solving.task_id]
              reasoned == solving.reasoned + 1
          IN  CASE reasoning.kind = "error" ->
                     /\ memory_store' = InState(memory_store, solving.task_id, ERROR)
                     /\ solve_returned' =
                            SolveReturn(solving.task_id, "error", FALSE, "",
                                        Len(memory.steps_taken), solving.before, reasoned)
                     /\ solving' = [NotSolving EXCEPT !.reasoned = reasoned]
                [] reasoning.kind = "none" \/ reasoning.next_action = "complete" ->
                     /\ memory_store' = InState(memory_store, solving.task_id, COMPLETED)
                     /\ solve_returned' =
                            SolveReturn(solving.task_id, "ended", TRUE, COMPLETED,
                                        Len(memory.steps_taken), solving.before, reasoned)
                     /\ solving' = [NotSolving EXCEPT !.reasoned = reasoned]
                [] OTHER ->
                     /\ memory_store' = InState(memory_store, solving.task_id, ACTING)
                     /\ solving' = [solving EXCEPT !.pc = "acting",
                                                   !.reasoning = reasoning,
                                                   !.reasoned = reasoned]
                     /\ UNCHANGED solve_returned
    /\ UNCHANGED <<llm_available, llm_plan, solve_calls, besidesTask>>

\* the rest of the loop body: execute_action, which may raise, then the step
\* record and the new situation
Act ==
    /\ solving.pc = "acting"
    /\ LET next_action == solving.reasoning.next_action
           memory == memory_store[solving.task_id]
           execution_result == ExecuteAction(next_action, solving.reasoning.parameters)
           step_record == [step_number |-> solving.step + 1, action |-> next_action]
       IN  IF execution_result = "raised"
           THEN /\ solve_returned' =
                       SolveReturn(solving.task_id, "raised", FALSE, "",
                                   Len(memory.steps_taken), solving.before, solving.reasoned)
                /\ solving' = [NotSolving EXCEPT !.reasoned = solving.reasoned]
                /\ UNCHANGED memory_store
           ELSE /\ memory_store' =
                       DictSet(memory_store, solving.task_id,
                               [current_state |-> THINKING,
                                steps_taken |-> Append(memory.steps_taken, step_record)])
                /\ solving' = [solving EXCEPT
                                  !.pc = "for",
                                  !.step = solving.step + 1,
                                  !.reasoning = Reasoning("", "", ""),
                                  !.current_situation =
                                      Situation("", next_action, execution_result # "success")]
                /\ UNCHANGED solve_returned
    /\ UNCHANGED <<llm_available, llm_plan, solve_calls, besidesTask>>

\* the range is exhausted: the summary and the return
LoopEnds ==
    /\ solving.pc = "for"
    /\ ~ReasoningGoesOn(solving.step)
    /\ LET memory == memory_store[solving.task_id]
       IN  solve_returned' =
               SolveReturn(solving.task_id, "limit", TRUE, memory.current_state,
                           Len(memory.steps_taken), solving.before, solving.reasoned)
    /\ solving' = [NotSolving EXCEPT !.reasoned = solving.reasoned]
    /\ UNCHANGED <<llm_available, llm_plan, memory_store, solve_calls, besidesTask>>

TaskNext == CreateTaskMemory \/ SolveTask \/ Reason \/ Act \/ LoopEnds

TaskSpec == TaskInit /\ [][TaskNext]_vars

\* a call that has begun goes on to its end
TaskLiveSpec == TaskSpec /\ WF_vars(Reason \/ Act \/ LoopEnds)

\* the memory of the task the last solve_task returned for
SolvedMemory == memory_store[solve_returned.task_id]

\* solve_task has just returned for a task that is in memory
SolveHasReturned ==
    solve_returned.op = "solve_task" /\ solve_returned.how \in {"error", "ended", "limit"}

=============================================================================
